---- MODULE Spec2Model ----
(***************************************************************************)
(* Load calculators of bim_normcad_check (src/checks): material density    *)
(* lookup, self-weight, wind load and snow load, modelled as operators     *)
(* over the calculators' parameter records, and a state machine that       *)
(* applies one calculator per step to inputs drawn from bounded sets.      *)
(*                                                                         *)
(* Numbers.  Python floats are modelled as scaled integers; every quantity *)
(* states its unit where it is introduced.  Products that stay exact keep  *)
(* the product of the units; the wind chain rounds after every operation   *)
(* (FMul, FDiv), as floating point does.                                   *)
(*                                                                         *)
(* Text.  A Python str is a sequence of one-character strings; a Cyrillic  *)
(* letter is written "ru_<name>" and its capital "RU_<NAME>".              *)
(***************************************************************************)
EXTENDS Integers, Sequences, FiniteSets, TLC

VARIABLES pc, args, ret

vars == <<pc, args, ret>>

(***************************************************************************)
(* Optional[float]: None is the empty tuple, a value v is <<v>>.           *)
(***************************************************************************)
None == <<>>

Some(v) == <<v>>

IsNone(o) == Len(o) = 0

Abs(x) == IF x < 0 THEN -x ELSE x

Sign(x) == IF x < 0 THEN -1 ELSE IF x > 0 THEN 1 ELSE 0

(***************************************************************************)
(* str.lower(), str.strip(), re.sub and the "in" operator on strings.      *)
(***************************************************************************)
UpperToLower ==
    ("A" :> "a") @@ ("B" :> "b") @@ ("C" :> "c") @@ ("D" :> "d") @@
    ("E" :> "e") @@ ("F" :> "f") @@ ("G" :> "g") @@ ("H" :> "h") @@
    ("I" :> "i") @@ ("J" :> "j") @@ ("K" :> "k") @@ ("L" :> "l") @@
    ("M" :> "m") @@ ("N" :> "n") @@ ("O" :> "o") @@ ("P" :> "p") @@
    ("Q" :> "q") @@ ("R" :> "r") @@ ("S" :> "s") @@ ("T" :> "t") @@
    ("U" :> "u") @@ ("V" :> "v") @@ ("W" :> "w") @@ ("X" :> "x") @@
    ("Y" :> "y") @@ ("Z" :> "z") @@ ("RU_S" :> "ru_s") @@
    ("RU_T" :> "ru_t") @@ ("RU_A" :> "ru_a") @@ ("RU_L" :> "ru_l") @@
    ("RU_SOFT" :> "ru_soft") @@ ("RU_D" :> "ru_d") @@ ("RU_R" :> "ru_r") @@
    ("RU_E" :> "ru_e") @@ ("RU_V" :> "ru_v") @@ ("RU_B" :> "ru_b") @@
    ("RU_U" :> "ru_u") @@ ("RU_O" :> "ru_o") @@ ("RU_N" :> "ru_n") @@
    ("RU_K" :> "ru_k") @@ ("RU_I" :> "ru_i") @@ ("RU_P" :> "ru_p") @@
    ("RU_CH" :> "ru_ch") @@ ("RU_YU" :> "ru_yu") @@ ("RU_M" :> "ru_m") @@
    ("RU_G" :> "ru_g")

CharLower(c) == IF c \in DOMAIN UpperToLower THEN UpperToLower[c] ELSE c

StrLower(s) == [i \in 1..Len(s) |-> CharLower(s[i])]

Whitespace == {" ", "\t"}

SeparatorChars == Whitespace \cup {"-", "_"}

RECURSIVE LStrip(_)
LStrip(s) ==
    IF s = <<>> THEN <<>>
    ELSE IF Head(s) \in Whitespace THEN LStrip(Tail(s))
    ELSE s

RECURSIVE RStrip(_)
RStrip(s) ==
    IF s = <<>> THEN <<>>
    ELSE IF s[Len(s)] \in Whitespace THEN RStrip(SubSeq(s, 1, Len(s) - 1))
    ELSE s

StrStrip(s) == RStrip(LStrip(s))

RECURSIVE SkipSeparators(_)
SkipSeparators(s) ==
    IF s = <<>> THEN <<>>
    ELSE IF Head(s) \in SeparatorChars THEN SkipSeparators(Tail(s))
    ELSE s

\* re.sub(r'[\s\-_]+', '_', s): every maximal run of separators becomes "_"
RECURSIVE SubSeparators(_)
SubSeparators(s) ==
    IF s = <<>> THEN <<>>
    ELSE IF Head(s) \in SeparatorChars
         THEN <<"_">> \o SubSeparators(SkipSeparators(s))
         ELSE <<Head(s)>> \o SubSeparators(Tail(s))

\* kw in s
StrContains(s, kw) ==
    \E i \in 1..(Len(s) - Len(kw) + 1) : SubSeq(s, i, i + Len(kw) - 1) = kw

(***************************************************************************)
(* self_weight.py: material densities, kg/m3.                              *)
(***************************************************************************)
MATERIAL_DENSITIES ==
    (<<"w", "o", "o", "d">> :> 500)
    @@ (<<"w", "o", "o", "d", "_", "s", "p", "r", "u", "c", "e">> :> 450)
    @@ (<<"w", "o", "o", "d", "_", "s", "p", "r", "u", "c", "e", "_", "b", "e", "a", "m">> :> 450)
    @@ (<<"w", "o", "o", "d", "_", "p", "i", "n", "e">> :> 500)
    @@ (<<"w", "o", "o", "d", "_", "o", "a", "k">> :> 700)
    @@ (<<"t", "i", "m", "b", "e", "r">> :> 500)
    @@ (<<"g", "l", "u", "l", "a", "m">> :> 500)
    @@ (<<"l", "v", "l">> :> 480)
    @@ (<<"s", "t", "e", "e", "l">> :> 7850)
    @@ (<<"s", "t", "e", "e", "l", "_", "s", "2", "3", "5">> :> 7850)
    @@ (<<"s", "t", "e", "e", "l", "_", "s", "3", "4", "5">> :> 7850)
    @@ (<<"s", "t", "e", "e", "l", "_", "s", "t", "r", "u", "c", "t", "u", "r", "a", "l">> :> 7850)
    @@ (<<"c", "o", "n", "c", "r", "e", "t", "e">> :> 2500)
    @@ (<<"c", "o", "n", "c", "r", "e", "t", "e", "_", "b", "2", "5">> :> 2500)
    @@ (<<"c", "o", "n", "c", "r", "e", "t", "e", "_", "b", "3", "0">> :> 2500)
    @@ (<<"r", "e", "i", "n", "f", "o", "r", "c", "e", "d", "_",
          "c", "o", "n", "c", "r", "e", "t", "e">> :> 2500)
    @@ (<<"l", "i", "g", "h", "t", "w", "e", "i", "g", "h", "t", "_",
          "c", "o", "n", "c", "r", "e", "t", "e">> :> 1800)
    @@ (<<"b", "r", "i", "c", "k">> :> 1800)
    @@ (<<"b", "r", "i", "c", "k", "_", "c", "e", "r", "a", "m", "i", "c">> :> 1700)
    @@ (<<"b", "r", "i", "c", "k", "_", "s", "i", "l", "i", "c", "a", "t", "e">> :> 1800)
    @@ (<<"a", "l", "u", "m", "i", "n", "u", "m">> :> 2700)
    @@ (<<"g", "l", "a", "s", "s">> :> 2500)
    @@ (<<"g", "y", "p", "s", "u", "m">> :> 1200)
    @@ (<<"i", "n", "s", "u", "l", "a", "t", "i", "o", "n">> :> 100)

keywords_density ==
    <<
      [keywords |->
         <<<<"s", "t", "e", "e", "l">>,
           <<"ru_s", "ru_t", "ru_a", "ru_l", "ru_soft">>>>,
       density |-> 7850],
      [keywords |->
         <<<<"w", "o", "o", "d">>,
           <<"t", "i", "m", "b", "e", "r">>,
           <<"ru_d", "ru_r", "ru_e", "ru_v">>,
           <<"ru_b", "ru_r", "ru_u", "ru_s">>,
           <<"ru_d", "ru_e", "ru_r", "ru_e", "ru_v">>,
           <<"s", "p", "r", "u", "c", "e">>,
           <<"p", "i", "n", "e">>,
           <<"ru_e", "ru_l", "ru_soft">>,
           <<"ru_s", "ru_o", "ru_s", "ru_n", "ru_a">>>>,
       density |-> 500],
      [keywords |->
         <<<<"c", "o", "n", "c", "r", "e", "t", "e">>,
           <<"ru_b", "ru_e", "ru_t", "ru_o", "ru_n">>>>,
       density |-> 2500],
      [keywords |->
         <<<<"b", "r", "i", "c", "k">>,
           <<"ru_k", "ru_i", "ru_r", "ru_p", "ru_i", "ru_ch">>>>,
       density |-> 1800],
      [keywords |->
         <<<<"a", "l", "u", "m", "i", "n", "u", "m">>,
           <<"ru_a", "ru_l", "ru_yu", "ru_m", "ru_i", "ru_n">>>>,
       density |-> 2700],
      [keywords |->
         <<<<"g", "l", "a", "s", "s">>,
           <<"ru_s", "ru_t", "ru_e", "ru_k", "ru_l", "ru_o">>>>,
       density |-> 2500],
      [keywords |->
         <<<<"g", "y", "p", "s", "u", "m">>,
           <<"ru_g", "ru_i", "ru_p", "ru_s">>>>,
       density |-> 1200]
    >>

normalize_material_name(name) ==
    IF name = <<>> THEN <<>>
    ELSE SubSeparators(StrStrip(StrLower(name)))

DefaultDensity == 2500

\* faulty variant: the scan does not stop at the first matching group, so
\* the last matching group decides
RECURSIVE FirstKeywordGroup_LastWins(_, _)
FirstKeywordGroup_LastWins(normalized, i) ==
    IF i > Len(keywords_density) THEN 0
    ELSE LET later == FirstKeywordGroup_LastWins(normalized, i + 1)
         IN  IF later > 0 THEN later
             ELSE IF \E k \in 1..Len(keywords_density[i].keywords) :
                        StrContains(normalized,
                                    keywords_density[i].keywords[k])
             THEN i
             ELSE 0

\* the index of the first keyword group one of whose keywords occurs in
\* normalized, or 0 when no group matches
RECURSIVE FirstKeywordGroup(_, _)
FirstKeywordGroup(normalized, i) ==
    IF i > Len(keywords_density) THEN 0
    ELSE IF \E k \in 1..Len(keywords_density[i].keywords) :
               StrContains(normalized, keywords_density[i].keywords[k])
         THEN i
         ELSE FirstKeywordGroup(normalized, i + 1)

\* faulty variant: the fallback is reported as a table hit
get_material_density_FallbackAsLookup(material_name, custom_density) ==
    IF ~IsNone(custom_density) /\ custom_density[1] > 0
    THEN [density |-> custom_density[1], source |-> "custom"]
    ELSE IF material_name = <<>>
    THEN [density |-> DefaultDensity, source |-> "lookup"]
    ELSE LET normalized == normalize_material_name(material_name)
             grp == FirstKeywordGroup(normalized, 1)
         IN  IF normalized \in DOMAIN MATERIAL_DENSITIES
             THEN [density |-> MATERIAL_DENSITIES[normalized], source |-> "lookup"]
             ELSE IF grp > 0
             THEN [density |-> keywords_density[grp].density, source |-> "lookup"]
             ELSE [density |-> DefaultDensity, source |-> "lookup"]

get_material_density(material_name, custom_density) ==
    IF ~IsNone(custom_density) /\ custom_density[1] > 0
    THEN [density |-> custom_density[1], source |-> "custom"]
    ELSE IF material_name = <<>>
    THEN [density |-> DefaultDensity, source |-> "default"]
    ELSE LET normalized == normalize_material_name(material_name)
             grp == FirstKeywordGroup(normalized, 1)
         IN  IF normalized \in DOMAIN MATERIAL_DENSITIES
             THEN [density |-> MATERIAL_DENSITIES[normalized], source |-> "lookup"]
             ELSE IF grp > 0
             THEN [density |-> keywords_density[grp].density, source |-> "lookup"]
             ELSE [density |-> DefaultDensity, source |-> "default"]

(***************************************************************************)
(* Inputs: material names.  A spelling is a list of words written with a   *)
(* separator run between the words, an optional separator character before *)
(* and after, in lower case, in upper case or capitalised.                 *)
(***************************************************************************)
W_wood == <<"w", "o", "o", "d">>
W_spruce == <<"s", "p", "r", "u", "c", "e">>
W_beam == <<"b", "e", "a", "m">>
W_steel == <<"s", "t", "e", "e", "l">>
W_s235 == <<"s", "2", "3", "5">>
W_concrete == <<"c", "o", "n", "c", "r", "e", "t", "e">>
W_reinforced == <<"r", "e", "i", "n", "f", "o", "r", "c", "e", "d">>
W_lightweight == <<"l", "i", "g", "h", "t", "w", "e", "i", "g", "h", "t">>
W_brick == <<"b", "r", "i", "c", "k">>
W_ceramic == <<"c", "e", "r", "a", "m", "i", "c">>
W_lvl == <<"l", "v", "l">>
W_plastic == <<"p", "l", "a", "s", "t", "i", "c">>
W_stal == <<"ru_s", "ru_t", "ru_a", "ru_l", "ru_soft">>
W_beton == <<"ru_b", "ru_e", "ru_t", "ru_o", "ru_n">>

MaxSepRun == 2

WordLists ==
    { <<W_wood, W_spruce>>, <<W_wood, W_spruce, W_beam>>,
      <<W_steel, W_concrete>>, <<W_reinforced, W_concrete>>,
      <<W_lightweight, W_concrete>>, <<W_brick, W_ceramic>>,
      <<W_beton, W_plastic>>,
      <<W_lvl>>, <<W_steel>>, <<W_plastic>>, <<W_stal>> }

SepRuns ==
    UNION { [1..n -> {"_", "-", " "}] : n \in 1..MaxSepRun }

EdgeRuns == { <<>>, <<" ">>, <<"-">>, <<"_">> }

Casings == {"lower", "upper", "title"}

LowerToUpper(c) ==
    IF \E u \in DOMAIN UpperToLower : UpperToLower[u] = c
    THEN CHOOSE u \in DOMAIN UpperToLower : UpperToLower[u] = c
    ELSE c

ApplyCasing(s, casing) ==
    [i \in 1..Len(s) |->
        IF casing = "upper" \/ (casing = "title" /\ i = 1)
        THEN LowerToUpper(s[i]) ELSE s[i]]

RECURSIVE JoinWords(_, _)
JoinWords(ws, sep) ==
    IF Len(ws) = 0 THEN <<>>
    ELSE IF Len(ws) = 1 THEN ws[1]
    ELSE ws[1] \o sep \o JoinWords(Tail(ws), sep)

Spelling(ws, lead, sep, trail, casing) ==
    ApplyCasing(lead \o JoinWords(ws, sep) \o trail, casing)

MaterialNames ==
    { <<>>, <<" ", "\t">>, <<"_">> }
    \cup { Spelling(ws, lead, sep, trail, casing) :
             ws \in WordLists, lead \in EdgeRuns, sep \in SepRuns,
             trail \in EdgeRuns, casing \in Casings }

CustomDensities == { None, Some(-100), Some(0), Some(1000) }

(***************************************************************************)
(* Number formatting.  A quantity held in units of 10^-from is printed     *)
(* with `to` decimals ("{x:.4f}"): the result is the printed number in     *)
(* units of 10^-to, rounded to nearest, ties to even.                      *)
(***************************************************************************)
RECURSIVE Pow10(_)
Pow10(k) == IF k = 0 THEN 1 ELSE 10 * Pow10(k - 1)

RoundDiv(x, d) ==
    LET a == Abs(x)
        q == a \div d
        r == a % d
        n == IF 2 * r > d \/ (2 * r = d /\ q % 2 = 1) THEN q + 1 ELSE q
    IN  Sign(x) * n

FormatFixed(x, from, to) ==
    IF to >= from THEN x * Pow10(to - from) ELSE RoundDiv(x, Pow10(from - to))

\* float division a / b, truncated to the unit of the quotient
TruncDiv(a, b) == Sign(a) * Sign(b) * (Abs(a) \div Abs(b))

(***************************************************************************)
(* self_weight.py: SelfWeightParams and calculate_self_weight.             *)
(* Units: volume_m3 in 10^-3 m3, length_m in 10^-1 m,                      *)
(* cross_section_area_m2 in 10^-2 m2, density in kg/m3, gamma_f in tenths, *)
(* mass_kg in 10^-3 kg, weight_norm_kN in 10^-8 kN, weight_calc_kN in      *)
(* 10^-9 kN, linear_load_kN_m in 10^-8 kN/m.                               *)
(***************************************************************************)
GAMMA_F_PERMANENT_UNFAV == 11

GAMMA_F_PERMANENT_FAV == 9

\* g = 9.81 / 1000, in 10^-5 kN/kg
GravityKNPerKg == 981

SelfWeightParams ==
    [element_id |-> "", element_name |-> "", ifc_class |-> "",
     volume_m3 |-> 0, length_m |-> 0, cross_section_area_m2 |-> 0,
     material_name |-> <<>>, density_kg_m3 |-> None,
     gamma_f |-> GAMMA_F_PERMANENT_UNFAV]

DensityNote(params, d) ==
    IF d.source = "default"
    THEN [kind |-> "density_default", warning |-> TRUE,
          material |-> params.material_name, ro |-> d.density]
    ELSE IF d.source = "lookup"
    THEN [kind |-> "density_lookup", warning |-> FALSE,
          material |-> params.material_name, ro |-> d.density]
    ELSE [kind |-> "density_custom", warning |-> FALSE,
          material |-> params.material_name, ro |-> d.density]

VolumeIsComputed(params) ==
    params.volume_m3 <= 0 /\ params.length_m > 0
        /\ params.cross_section_area_m2 > 0

ResolveVolume(params) ==
    IF VolumeIsComputed(params)
    THEN params.length_m * params.cross_section_area_m2
    ELSE params.volume_m3

\* faulty variant: no note when the volume is undefined
VolumeNotes_NoElse(params, volume) ==
    IF VolumeIsComputed(params)
    THEN <<[kind |-> "volume_computed", warning |-> FALSE,
            L |-> FormatFixed(params.length_m, 1, 3),
            A |-> FormatFixed(params.cross_section_area_m2, 2, 6),
            V |-> FormatFixed(volume, 3, 6)]>>
    ELSE IF volume > 0
    THEN <<[kind |-> "volume_ifc", warning |-> FALSE,
            V |-> FormatFixed(volume, 3, 6)]>>
    ELSE <<>>

\* the note appended by the volume step
VolumeNotes(params, volume) ==
    IF VolumeIsComputed(params)
    THEN <<[kind |-> "volume_computed", warning |-> FALSE,
            L |-> FormatFixed(params.length_m, 1, 3),
            A |-> FormatFixed(params.cross_section_area_m2, 2, 6),
            V |-> FormatFixed(volume, 3, 6)]>>
    ELSE IF volume > 0
    THEN <<[kind |-> "volume_ifc", warning |-> FALSE,
            V |-> FormatFixed(volume, 3, 6)]>>
    ELSE <<[kind |-> "volume_undefined", warning |-> TRUE]>>

\* faulty variant: the module default is used, whatever the params say
SelfWeightGamma_Default(params) == GAMMA_F_PERMANENT_UNFAV

SelfWeightGamma(params) == params.gamma_f

\* faulty variant: "if params.length_m:" instead of "> 0"
HasLinearLoad_Truthy(params) == params.length_m # 0

HasLinearLoad(params) == params.length_m > 0

calculate_self_weight(params) ==
    LET d == get_material_density(params.material_name, params.density_kg_m3)
        density == d.density
        volume == ResolveVolume(params)
        mass == density * volume
        weight_norm == mass * GravityKNPerKg
        gamma_f == SelfWeightGamma(params)
        weight_calc == weight_norm * gamma_f
        linear_load ==
            IF HasLinearLoad(params)
            THEN Some(TruncDiv(weight_calc, params.length_m))
            ELSE None
        notes ==
            <<DensityNote(params, d)>>
            \o VolumeNotes(params, volume)
            \o <<
              [kind |-> "mass", warning |-> FALSE, ro |-> density,
               V |-> FormatFixed(volume, 3, 6), m |-> FormatFixed(mass, 3, 2)],
              [kind |-> "weight_norm", warning |-> FALSE,
               m |-> FormatFixed(mass, 3, 2),
               g |-> FormatFixed(GravityKNPerKg, 5, 4),
               G0 |-> FormatFixed(weight_norm, 8, 4)],
              [kind |-> "weight_calc", warning |-> FALSE,
               G0 |-> FormatFixed(weight_norm, 8, 4), gamma_f |-> gamma_f,
               G |-> FormatFixed(weight_calc, 9, 4)]>>
            \o (IF HasLinearLoad(params)
                THEN <<[kind |-> "linear_load", warning |-> FALSE,
                        G |-> FormatFixed(weight_calc, 9, 4),
                        L |-> FormatFixed(params.length_m, 1, 3),
                        q |-> FormatFixed(linear_load[1], 8, 4)]>>
                ELSE <<>>)
    IN  [element_id |-> params.element_id,
         element_name |-> params.element_name,
         ifc_class |-> params.ifc_class,
         volume_m3 |-> volume,
         length_m |-> params.length_m,
         cross_section_area_m2 |-> params.cross_section_area_m2,
         material_name |-> params.material_name,
         density_kg_m3 |-> density,
         density_source |-> d.source,
         mass_kg |-> mass,
         weight_norm_kN |-> weight_norm,
         weight_calc_kN |-> weight_calc,
         gamma_f |-> gamma_f,
         linear_load_kN_m |-> linear_load,
         notes |-> notes]

\* the demonstration element of the module's __main__
demo_params ==
    [SelfWeightParams EXCEPT
        !.element_id = "demo_beam_001",
        !.element_name = "demo_beam_100x200",
        !.ifc_class = "IfcBeam",
        !.volume_m3 = 54,
        !.length_m = 27,
        !.cross_section_area_m2 = 2,
        !.material_name = JoinWords(<<W_wood, W_spruce, W_beam>>, <<"_">>)]

(***************************************************************************)
(* self_weight.py: the batch over the elements of an IFC extract.  A JSON  *)
(* object is a function on its keys (the empty object is <<>>).  The raw   *)
(* quantities of an element are in tenths of their unit for Length,        *)
(* Height, length, b and h, in 10^-3 m3 for NetVolume and in 10^-2 m2 for  *)
(* CrossSectionArea.                                                       *)
(***************************************************************************)
\* d.get(k, default)
DictGet(d, k, default) == IF k \in DOMAIN d THEN d[k] ELSE default

\* length_val / 1000.0 if length_val > 100 else length_val, in 10^-1 m
LengthToMetres(length_val) ==
    IF length_val > 1000 THEN RoundDiv(length_val, 1000) ELSE length_val

\* variant: the section sides follow the rule of the lengths
SideToMetres_AsLength(b) == LengthToMetres(b)

\* b / 1000.0 if b > 1 else b, in 10^-1 m
SideToMetres(b) == IF b > 10 THEN RoundDiv(b, 1000) ELSE b

ApplyQtoBeam(params, qto_beam) ==
    IF DOMAIN qto_beam = {} THEN params
    ELSE [params EXCEPT
            !.volume_m3 = IF "NetVolume" \in DOMAIN qto_beam
                          THEN qto_beam["NetVolume"] ELSE @,
            !.length_m = IF "Length" \in DOMAIN qto_beam
                         THEN LengthToMetres(qto_beam["Length"]) ELSE @,
            !.cross_section_area_m2 =
                IF "CrossSectionArea" \in DOMAIN qto_beam
                THEN qto_beam["CrossSectionArea"] ELSE @]

ApplyQtoColumn(params, qto_column) ==
    IF DOMAIN qto_column = {} THEN params
    ELSE [params EXCEPT
            !.volume_m3 = IF "NetVolume" \in DOMAIN qto_column
                          THEN qto_column["NetVolume"] ELSE @,
            !.length_m =
                IF "Length" \in DOMAIN qto_column
                   \/ "Height" \in DOMAIN qto_column
                THEN LengthToMetres(
                         DictGet(qto_column, "Length",
                                 DictGet(qto_column, "Height", 0)))
                ELSE @,
            !.cross_section_area_m2 =
                IF "CrossSectionArea" \in DOMAIN qto_column
                THEN qto_column["CrossSectionArea"] ELSE @]

\* the slab and wall quantities: only NetVolume is read
ApplyQtoVolume(params, qto) ==
    IF "NetVolume" \in DOMAIN qto
    THEN [params EXCEPT !.volume_m3 = qto["NetVolume"]] ELSE params

ApplySectionLength(params, section) ==
    IF params.length_m = 0 /\ "length" \in DOMAIN section
    THEN [params EXCEPT !.length_m = LengthToMetres(section["length"])]
    ELSE params

ApplySectionArea(params, section) ==
    LET b == DictGet(section, "b", 0)
        h == DictGet(section, "h", 0)
    IN  IF params.cross_section_area_m2 = 0 /\ b > 0 /\ h > 0
        THEN [params EXCEPT
                !.cross_section_area_m2 = SideToMetres(b) * SideToMetres(h)]
        ELSE params

extract_self_weight_params_from_ifc_element(element) ==
    LET materials == DictGet(element, "materials", <<>>)
        psets == DictGet(element, "psets", <<>>)
        section == DictGet(element, "section_approx", <<>>)
        p0 == [SelfWeightParams EXCEPT
                 !.element_id = DictGet(element, "global_id", ""),
                 !.element_name = DictGet(element, "name", ""),
                 !.ifc_class = DictGet(element, "ifc_class", "")]
        p1 == IF materials # <<>>
              THEN [p0 EXCEPT !.material_name = materials[1]] ELSE p0
        p2 == ApplyQtoBeam(p1, DictGet(psets, "Qto_BeamBaseQuantities", <<>>))
        p3 == ApplyQtoColumn(p2,
                  DictGet(psets, "Qto_ColumnBaseQuantities", <<>>))
        p4 == ApplyQtoVolume(p3,
                  DictGet(psets, "Qto_SlabBaseQuantities", <<>>))
        p5 == ApplyQtoVolume(p4,
                  DictGet(psets, "Qto_WallBaseQuantities", <<>>))
    IN  IF DOMAIN section = {} THEN p5
        ELSE ApplySectionArea(ApplySectionLength(p5, section), section)

StructuralClasses ==
    {"IfcBeam", "IfcColumn", "IfcSlab", "IfcWall", "IfcMember", "IfcFooting"}

\* one pass of the loop body: a blank line is None; acc holds results,
\* total_weight_norm and total_weight_calc
ProcessLine(line, acc) ==
    IF IsNone(line) THEN acc
    ELSE IF DictGet(line[1], "ifc_class", "") \notin StructuralClasses
    THEN acc
    ELSE LET params == extract_self_weight_params_from_ifc_element(line[1])
             result == calculate_self_weight(params)
         IN  [results |-> Append(acc.results, result),
              total_weight_norm |->
                  acc.total_weight_norm + result.weight_norm_kN,
              total_weight_calc |->
                  acc.total_weight_calc + result.weight_calc_kN]

\* the loop over the lines of the file
RECURSIVE ProcessLines(_, _, _)
ProcessLines(lines, i, acc) ==
    IF i > Len(lines) THEN acc
    ELSE ProcessLines(lines, i + 1, ProcessLine(lines[i], acc))

\* the three notes on the totals
TotalsNotes(total_weight_norm, total_weight_calc) ==
    <<[kind |-> "totals_header", warning |-> FALSE],
      [kind |-> "total_weight_norm", warning |-> FALSE,
       total |-> FormatFixed(total_weight_norm, 8, 2)],
      [kind |-> "total_weight_calc", warning |-> FALSE,
       total |-> FormatFixed(total_weight_calc, 9, 2)]>>

\* after the loop: the totals are appended to the notes of the first
\* result; the results are returned and written to output_path if given
AppendTotals(acc) ==
    IF acc.results # <<>>
    THEN [acc.results EXCEPT
            ![1].notes = @ \o TotalsNotes(acc.total_weight_norm,
                                          acc.total_weight_calc)]
    ELSE acc.results

ReturnAndWrite(results, output_path) ==
    [results |-> results,
     written |-> IF IsNone(output_path) THEN None ELSE Some(results)]

process_ifc_data(lines, output_path) ==
    ReturnAndWrite(
        AppendTotals(
            ProcessLines(lines, 1,
                [results |-> <<>>, total_weight_norm |-> 0,
                 total_weight_calc |-> 0])),
        output_path)

(***************************************************************************)
(* wind_load.py.  Pressures and coefficients (w0, k_ze, zeta, c, wm, wp,   *)
(* nu, w_norm, w_calc, gamma_f, rho, chi) are in 10^-3; heights and        *)
(* building dimensions in 10^-1 m; areas in 10^-2 m2; total_load_kN in     *)
(* 10^-5 kN.  FMul and FDiv are float multiplication and division of       *)
(* 10^-3 quantities, rounded to the nearest 10^-3.                         *)
(***************************************************************************)
Max(a, b) == IF a >= b THEN a ELSE b

Min(a, b) == IF a <= b THEN a ELSE b

FMul(a, b) == RoundDiv(a * b, 1000)

\* a / b for b # 0
FDiv(a, b) == Sign(b) * RoundDiv(a * 1000, Abs(b))

Ok(v) == [raised |-> "none", value |-> v]

Raise(e) == [raised |-> e]

WIND_REGIONS_W0 ==
    ("Ia" :> 170) @@ ("I" :> 230) @@ ("II" :> 300) @@ ("III" :> 380)
    @@ ("IV" :> 480) @@ ("V" :> 600) @@ ("VI" :> 730) @@ ("VII" :> 850)

\* alpha in 10^-2, k10 and zeta10 in 10^-3, z0 in 10^-1 m
TERRAIN_PARAMS ==
    ("A" :> [alpha |-> 15, k10 |-> 1000, zeta10 |-> 760, z0 |-> 50])
    @@ ("B" :> [alpha |-> 20, k10 |-> 650, zeta10 |-> 1060, z0 |-> 100])
    @@ ("C" :> [alpha |-> 25, k10 |-> 400, zeta10 |-> 1780, z0 |-> 200])

GAMMA_F_WIND == 1400

AERO_COEFFICIENTS ==
    ("windward" :> 800) @@ ("leeward" :> -500) @@ ("side" :> -600)
    @@ ("roof_flat" :> -700) @@ ("roof_windward" :> -600)
    @@ ("roof_leeward" :> -400)

WindLoadParams ==
    [element_id |-> "", element_name |-> "",
     element_height_m |-> 0, element_width_m |-> 0, element_area_m2 |-> 0,
     wind_region |-> "III", terrain_type |-> "B",
     building_height_m |-> 100, building_width_m |-> 200,
     building_length_m |-> 300,
     surface_type |-> "windward", custom_aero_coef |-> None,
     include_pulsation |-> TRUE, correlation_coef_nu |-> 800]

\* 1000 * 2^(m/20) for m = -10..20, rounded
Exp2Twentieths ==
    <<707, 732, 758, 785, 812, 841, 871, 901, 933, 966,
      1000, 1035, 1072, 1110, 1149, 1189, 1231, 1275, 1320, 1366,
      1414, 1464, 1516, 1569, 1625, 1682, 1741, 1803, 1866, 1932, 2000>>

\* (ze_calc / 10) ** (e / 100) for the heights 5, 10, 20 and 40 m, whose
\* ratio to 10 m is a power of two: 2^j to the e/100 is 2^(j*e/100)
FloatPow(ze_calc, e) ==
    LET j == CASE ze_calc = 50 -> -1
               [] ze_calc = 100 -> 0
               [] ze_calc = 200 -> 1
               [] ze_calc = 400 -> 2
    IN  Exp2Twentieths[((j * e) \div 5) + 11]

\* variant: an unknown terrain type falls back to the first table entry
TerrainParamsOrB_FirstEntry(terrain_type) ==
    IF terrain_type \in DOMAIN TERRAIN_PARAMS
    THEN TERRAIN_PARAMS[terrain_type] ELSE TERRAIN_PARAMS["A"]

TerrainParamsOrB(terrain_type) ==
    IF terrain_type \in DOMAIN TERRAIN_PARAMS
    THEN TERRAIN_PARAMS[terrain_type] ELSE TERRAIN_PARAMS["B"]

\* variant: the height is clamped to 10 m, whatever the terrain's z0
calculate_k_ze_ClampToTen(ze, terrain_type) ==
    LET params == TerrainParamsOrB(terrain_type)
        ze_calc == Max(ze, 100)
    IN  [k |-> FMul(params.k10, FloatPow(ze_calc, 2 * params.alpha)),
         zeta |-> FMul(params.zeta10, FloatPow(ze_calc, -params.alpha))]

calculate_k_ze(ze, terrain_type) ==
    LET params == TerrainParamsOrB(terrain_type)
        ze_calc == Max(ze, params.z0)
    IN  [k |-> FMul(params.k10, FloatPow(ze_calc, 2 * params.alpha)),
         zeta |-> FMul(params.zeta10, FloatPow(ze_calc, -params.alpha))]

calculate_correlation_coefficient(rho, chi, terrain_type) ==
    LET denom == 1000 + FMul(800, rho + chi)
    IN  IF denom = 0 THEN Raise("ZeroDivisionError")
        ELSE Ok(Max(400, Min(1000, FDiv(1000, denom))))

\* variant: "if custom:" instead of "if custom is not None:"
get_aero_coefficient_Truthy(surface_type, custom) ==
    IF ~IsNone(custom) /\ custom[1] # 0 THEN custom[1]
    ELSE IF surface_type \in DOMAIN AERO_COEFFICIENTS
    THEN AERO_COEFFICIENTS[surface_type] ELSE 800

get_aero_coefficient(surface_type, custom) ==
    IF ~IsNone(custom) THEN custom[1]
    ELSE IF surface_type \in DOMAIN AERO_COEFFICIENTS
    THEN AERO_COEFFICIENTS[surface_type] ELSE 800

\* variant: an unknown region takes the lowest base pressure of the table
BasePressure_Lowest(wind_region) ==
    IF wind_region \in DOMAIN WIND_REGIONS_W0
    THEN WIND_REGIONS_W0[wind_region] ELSE WIND_REGIONS_W0["Ia"]

\* w0 = WIND_REGIONS_W0.get(params.wind_region, 0.38)
BasePressure(wind_region) ==
    IF wind_region \in DOMAIN WIND_REGIONS_W0
    THEN WIND_REGIONS_W0[wind_region] ELSE 380

\* the terrain type the coefficients are computed for
ResolveTerrain(terrain_type) ==
    IF terrain_type \in DOMAIN TERRAIN_PARAMS THEN terrain_type ELSE "B"

EquivalentHeight(params) ==
    IF params.element_height_m > 0 THEN params.element_height_m
    ELSE params.building_height_m

NuIsComputed(params) ==
    params.include_pulsation /\ params.building_width_m > 0
        /\ params.building_height_m > 0

\* the correlation coefficient used: Ok(nu), or the exception raised
CorrelationStep(params, terrain) ==
    IF NuIsComputed(params)
    THEN LET rho == FDiv(params.building_width_m,
                         10 * params.building_height_m)
             chi == FDiv(params.building_length_m,
                         10 * params.building_height_m)
         IN  calculate_correlation_coefficient(rho, chi, terrain)
    ELSE Ok(params.correlation_coef_nu)

PulsationComponent(params, wm, zeta, nu) ==
    IF params.include_pulsation THEN FMul(FMul(Abs(wm), zeta), nu) ELSE 0

CombineNorm(wm, wp) == IF wm >= 0 THEN wm + wp ELSE wm - wp

\* variant: the element area is taken as it comes
ElementArea_Unchecked(params) == params.element_area_m2

ElementArea(params) ==
    IF params.element_area_m2 > 0 THEN params.element_area_m2 ELSE 0

calculate_wind_load(params) ==
    LET known_region == params.wind_region \in DOMAIN WIND_REGIONS_W0
        w0 == BasePressure(params.wind_region)
        known_terrain == params.terrain_type \in DOMAIN TERRAIN_PARAMS
        terrain == ResolveTerrain(params.terrain_type)
        ze == EquivalentHeight(params)
        kz == calculate_k_ze(ze, terrain)
        k_ze == kz.k
        zeta == kz.zeta
        c == get_aero_coefficient(params.surface_type,
                                  params.custom_aero_coef)
        wm == FMul(FMul(w0, k_ze), c)
        corr == CorrelationStep(params, terrain)
    IN  IF corr.raised # "none" THEN Raise(corr.raised)
        ELSE
        LET nu == corr.value
            wp == PulsationComponent(params, wm, zeta, nu)
            w_norm == CombineNorm(wm, wp)
            gamma_f == GAMMA_F_WIND
            w_calc == FMul(w_norm, gamma_f)
            area == ElementArea(params)
            total_load == Abs(w_calc) * area
            notes ==
                <<IF known_region
                  THEN [kind |-> "region", warning |-> FALSE,
                        region |-> params.wind_region, w0 |-> w0]
                  ELSE [kind |-> "region_unknown", warning |-> TRUE,
                        region |-> params.wind_region, w0 |-> w0],
                  IF known_terrain
                  THEN [kind |-> "terrain", warning |-> FALSE,
                        terrain |-> terrain]
                  ELSE [kind |-> "terrain_unknown", warning |-> TRUE,
                        terrain |-> params.terrain_type],
                  [kind |-> "ze", warning |-> FALSE,
                   ze |-> FormatFixed(ze, 1, 1)],
                  [kind |-> "k_ze", warning |-> FALSE,
                   k |-> FormatFixed(k_ze, 3, 3)],
                  [kind |-> "zeta", warning |-> FALSE,
                   zeta |-> FormatFixed(zeta, 3, 3)],
                  [kind |-> "aero", warning |-> FALSE,
                   c |-> FormatFixed(c, 3, 2),
                   surface |-> params.surface_type],
                  [kind |-> "wm", warning |-> FALSE, w0 |-> w0,
                   k |-> FormatFixed(k_ze, 3, 3),
                   c |-> FormatFixed(c, 3, 2),
                   wm |-> FormatFixed(wm, 3, 4)]>>
                \o (IF params.include_pulsation
                    THEN <<[kind |-> "nu", warning |-> FALSE,
                            nu |-> FormatFixed(nu, 3, 3)],
                           [kind |-> "wp", warning |-> FALSE,
                            wm |-> FormatFixed(Abs(wm), 3, 4),
                            zeta |-> FormatFixed(zeta, 3, 3),
                            nu |-> FormatFixed(nu, 3, 3),
                            wp |-> FormatFixed(wp, 3, 4)]>>
                    ELSE <<[kind |-> "no_pulsation", warning |-> FALSE]>>)
                \o <<[kind |-> "w_norm", warning |-> FALSE,
                      w |-> FormatFixed(w_norm, 3, 4)],
                     [kind |-> "w_calc", warning |-> FALSE,
                      w |-> FormatFixed(w_norm, 3, 4), gamma_f |-> gamma_f,
                      w_calc |-> FormatFixed(w_calc, 3, 4)]>>
                \o (IF area > 0
                    THEN <<[kind |-> "total_load", warning |-> FALSE,
                            w_calc |-> FormatFixed(Abs(w_calc), 3, 4),
                            area |-> FormatFixed(area, 2, 2),
                            total |-> FormatFixed(total_load, 5, 2)]>>
                    ELSE <<>>)
                \o <<[kind |-> "one_direction", warning |-> FALSE]>>
        IN  Ok([element_id |-> params.element_id,
                element_name |-> params.element_name,
                w0 |-> w0, k_ze |-> k_ze, c |-> c, wm |-> wm,
                zeta |-> zeta, nu |-> nu, wp |-> wp,
                w_norm |-> w_norm, w_calc |-> w_calc, gamma_f |-> gamma_f,
                area_m2 |-> area, total_load_kN |-> total_load,
                wind_directions |-> <<"0", "90", "180", "270">>,
                notes |-> notes])

\* xyz[2] / 1000.0 and section b / 1000.0: always taken as millimetres
MillimetresToMetres(v) == RoundDiv(v, 1000)

\* the raw placement height and section width are in tenths of their
\* unit, GrossSideArea in 10^-2 m2
extract_wind_params_from_ifc_element(element) ==
    LET placement == DictGet(element, "placement", <<>>)
        xyz == DictGet(placement, "xyz", <<0, 0, 0>>)
        section == DictGet(element, "section_approx", <<>>)
        psets == DictGet(element, "psets", <<>>)
        qto_wall == DictGet(psets, "Qto_WallBaseQuantities", <<>>)
    IN  [WindLoadParams EXCEPT
            !.element_id = DictGet(element, "global_id", ""),
            !.element_name = DictGet(element, "name", ""),
            !.element_height_m = IF Len(xyz) >= 3
                                 THEN MillimetresToMetres(xyz[3]) ELSE @,
            !.element_width_m =
                IF DOMAIN section # {}
                THEN MillimetresToMetres(DictGet(section, "b", 0)) ELSE @,
            !.element_area_m2 = IF "GrossSideArea" \in DOMAIN qto_wall
                                THEN qto_wall["GrossSideArea"] ELSE @]

\* (surface_type, area, height) of the four surfaces, in processing order
BuildingSurfaces(building_height, building_width, building_length) ==
    <<[surface_type |-> "windward",
       area |-> building_width * building_height,
       height |-> TruncDiv(building_height, 2)],
      [surface_type |-> "leeward",
       area |-> building_width * building_height,
       height |-> TruncDiv(building_height, 2)],
      [surface_type |-> "side",
       area |-> building_length * building_height,
       height |-> TruncDiv(building_height, 2)],
      [surface_type |-> "roof_flat",
       area |-> building_width * building_length,
       height |-> building_height]>>

SurfaceParams(s, building_height, building_width, building_length, wind_region, terrain_type) ==
    [WindLoadParams EXCEPT
        !.element_id = <<"surface_", s.surface_type>>,
        !.element_name = <<"surface: ", s.surface_type>>,
        !.element_height_m = s.height,
        !.element_area_m2 = s.area,
        !.wind_region = wind_region,
        !.terrain_type = terrain_type,
        !.building_height_m = building_height,
        !.building_width_m = building_width,
        !.building_length_m = building_length,
        !.surface_type = s.surface_type]

\* the loop over the surfaces: results so far, or the first exception
RECURSIVE WindForSurfaces(_, _, _, _, _, _, _, _)
WindForSurfaces(surfaces, i, results, building_height, building_width, building_length, wind_region, terrain_type) ==
    IF i > Len(surfaces) THEN Ok(results)
    ELSE LET s == surfaces[i]
             r == calculate_wind_load(
                      SurfaceParams(s, building_height, building_width,
                                    building_length, wind_region,
                                    terrain_type))
         IN  IF r.raised # "none" THEN Raise(r.raised)
             ELSE WindForSurfaces(surfaces, i + 1,
                      (s.surface_type :> r.value) @@ results,
                      building_height, building_width, building_length,
                      wind_region, terrain_type)

calculate_wind_for_building(building_height, building_width, building_length, wind_region, terrain_type) ==
    WindForSurfaces(
        BuildingSurfaces(building_height, building_width, building_length),
        1, <<>>, building_height, building_width, building_length,
        wind_region, terrain_type)

(***************************************************************************)
(* snow_load.py: the snow load is computed by the NormCAD COM server; the  *)
(* module marshals the inputs and reports the outcome.  Sg, mu, Ce and Ct  *)
(* are in 10^-3, the roof angle in degrees, the area in 10^-2 m2.          *)
(*                                                                         *)
(* The COM server is the environment.  com.has_win32com is the module's    *)
(* HAS_WIN32COM; com.fail_at names the NormCADSnowLoad method in which a   *)
(* COM call raises ("none": no call raises); com.license is what TestKey   *)
(* answers and com.max_result is the server's MaxResult.                   *)
(***************************************************************************)
SNOW_REGIONS_SG ==
    ("I" :> 500) @@ ("II" :> 1000) @@ ("III" :> 1500) @@ ("IV" :> 2000)
    @@ ("V" :> 2500) @@ ("VI" :> 3000) @@ ("VII" :> 3500)
    @@ ("VIII" :> 4000)

SnowLoadInput ==
    [element_id |-> "", element_name |-> "", area_m2 |-> 0,
     snow_region |-> "III", roof_angle_deg |-> 0,
     mu |-> 1000, Ce |-> 1000, Ct |-> 1000]

SnowGroundLoad(snow_region) ==
    IF snow_region \in DOMAIN SNOW_REGIONS_SG
    THEN SNOW_REGIONS_SG[snow_region] ELSE 1500

\* NormCADSnowLoad.set_input_data: the variables prepared for the server
set_input_data(data) ==
    [Sg |-> SnowGroundLoad(data.snow_region), mu |-> data.mu,
     Ce |-> data.Ce, Ct |-> data.Ct, gamma_f |-> 1400,
     alpha |-> data.roof_angle_deg, A |-> data.area_m2,
     snow_region |-> data.snow_region]

\* mu of a flat roof as a function of the roof angle, in 10^-3
FlatRoofMu(angle) ==
    IF angle <= 25 THEN 1000
    ELSE IF angle <= 60 THEN RoundDiv((60 - angle) * 1000, 35)
    ELSE 0

\* variant: mu derived from the roof angle instead of taken from the caller
SingleResultBase_DerivedMu(area_m2, snow_region, mu, Ce, Ct, roof_angle_deg) ==
    [area_m2 |-> area_m2, snow_region |-> snow_region,
     Sg_kPa |-> SnowGroundLoad(snow_region),
     mu |-> FlatRoofMu(roof_angle_deg),
     Ce |-> Ce, Ct |-> Ct, roof_angle_deg |-> roof_angle_deg]

\* variant: the loads computed locally and added to the result
SingleResultBase_WithLoads(area_m2, snow_region, mu, Ce, Ct, roof_angle_deg) ==
    LET Sg == SnowGroundLoad(snow_region)
        S0 == FMul(FMul(FMul(Sg, mu), Ce), Ct)
        S == FMul(S0, 1400)
    IN  [area_m2 |-> area_m2, snow_region |-> snow_region,
         Sg_kPa |-> Sg, mu |-> mu, Ce |-> Ce, Ct |-> Ct,
         roof_angle_deg |-> roof_angle_deg,
         S0 |-> S0, S |-> S, total_load_kN |-> S * area_m2]

\* the result dict of calculate_single before the COM calls
SingleResultBase(area_m2, snow_region, mu, Ce, Ct, roof_angle_deg) ==
    [area_m2 |-> area_m2, snow_region |-> snow_region,
     Sg_kPa |-> SnowGroundLoad(snow_region), mu |-> mu,
     Ce |-> Ce, Ct |-> Ct, roof_angle_deg |-> roof_angle_deg]

ComError(method) == <<"com_error", method>>

check_license_Skipped(com) == TRUE

check_license(com) == com.license

\* the try block shared by calculate_single and process_ifc_file:
\* the keys it adds to the result and the NormCADSnowLoad methods it enters
NormCADRun(com, report) ==
    IF ~com.has_win32com
    THEN [added |-> [status |-> "no_win32com",
                     error |-> "pywin32 not installed"],
          calls |-> <<>>]
    ELSE IF com.fail_at = "__init__"
    THEN [added |-> [status |-> "error", error |-> ComError("__init__")],
          calls |-> <<"__init__">>]
    ELSE IF com.fail_at = "setup_task"
    THEN [added |-> [status |-> "error", error |-> ComError("setup_task")],
          calls |-> <<"__init__", "setup_task">>]
    ELSE IF com.fail_at = "check_license"
    THEN [added |-> [status |-> "error",
                     error |-> ComError("check_license")],
          calls |-> <<"__init__", "setup_task", "set_input_data",
                      "check_license">>]
    ELSE IF ~check_license(com)
    THEN [added |-> [status |-> "no_license",
                     error |-> "NormCAD license key not found"],
          calls |-> <<"__init__", "setup_task", "set_input_data",
                      "check_license">>]
    ELSE IF com.fail_at = "calculate"
    THEN [added |-> [status |-> "error", error |-> ComError("calculate")],
          calls |-> <<"__init__", "setup_task", "set_input_data",
                      "check_license", "calculate">>]
    ELSE IF IsNone(report)
    THEN [added |-> [max_result |-> com.max_result,
                     status |-> "calculated"],
          calls |-> <<"__init__", "setup_task", "set_input_data",
                      "check_license", "calculate">>]
    ELSE IF com.fail_at = "save_report"
    THEN [added |-> [max_result |-> com.max_result,
                     status |-> "error",
                     error |-> ComError("save_report")],
          calls |-> <<"__init__", "setup_task", "set_input_data",
                      "check_license", "calculate", "save_report">>]
    ELSE [added |-> [max_result |-> com.max_result,
                     status |-> "calculated", report |-> report[1]],
          calls |-> <<"__init__", "setup_task", "set_input_data",
                      "check_license", "calculate", "save_report">>]

calculate_single(area_m2, snow_region, mu, Ce, Ct, roof_angle_deg, report_path, com) ==
    LET data == [SnowLoadInput EXCEPT
                    !.area_m2 = area_m2, !.snow_region = snow_region,
                    !.mu = mu, !.Ce = Ce, !.Ct = Ct,
                    !.roof_angle_deg = roof_angle_deg]
        run == NormCADRun(com, report_path)
    IN  [result |-> run.added
                    @@ SingleResultBase(area_m2, snow_region, mu, Ce, Ct,
                                        roof_angle_deg),
         vars_data |-> IF "set_input_data" \in
                            {run.calls[i] : i \in 1..Len(run.calls)}
                       THEN Some(set_input_data(data)) ELSE None,
         calls |-> run.calls]

(***************************************************************************)
(* Slab reinforcement selection (official_examples/armirovanie_pliti.py).  *)
(* Check results are in halves (2 is the ratio 1.0).  The NormCAD Vars     *)
(* object is the record com, which fixes the value left in Vars.Result by  *)
(* Ex for each set of diameters and each check: Some(ratio), growing with  *)
(* the number of bars thinner than com.required, or None for a value that  *)
(* float() cannot convert.                                                 *)
(***************************************************************************)
ResultLimit == 2

FailedResult == 2000000000

VarsResultAfterEx(com, ix, iy, jx, jy, check_ex, k) ==
    LET short(d, i) == IF d < com.required[i] THEN 1 ELSE 0
        deficit == short(ix, 1) + short(iy, 2) + short(jx, 3) + short(jy, 4)
    IN  IF com.unreadable = Some(ix) /\ k = Len(check_ex) THEN None
        ELSE IF k = 1 THEN Some(com.ratio + deficit)
        ELSE Some(2 * deficit)

ReadResult_AsZero(raw) == IF IsNone(raw) THEN 0 ELSE raw[1]

ReadResult(raw) == IF IsNone(raw) THEN FailedResult ELSE raw[1]

RECURSIVE MaxOverChecks(_, _, _, _, _, _, _, _)
MaxOverChecks(com, ix, iy, jx, jy, check_ex, k, max_r) ==
    IF k > Len(check_ex) THEN max_r
    ELSE LET r == ReadResult(VarsResultAfterEx(com, ix, iy, jx, jy, check_ex, k))
         IN  MaxOverChecks(com, ix, iy, jx, jy, check_ex, k + 1,
                           IF r > max_r THEN r ELSE max_r)

ComboText(ix, iy, jx, jy) == <<ix, jx, iy, jy>>

RECURSIVE NestedLoops(_, _, _, _, _)
TupleStep(com, diameters, check_ex, t, best_result, ix, iy, jx, jy, max_r) ==
    IF max_r <= ResultLimit
    THEN [combo |-> Some(ComboText(ix, iy, jx, jy)), result |-> max_r]
    ELSE NestedLoops(com, diameters, check_ex, t + 1, Max(best_result, max_r))

TupleAt(com, diameters, check_ex, t, best_result, ix, iy, jx, jy) ==
    TupleStep(com, diameters, check_ex, t, best_result, ix, iy, jx, jy,
              MaxOverChecks(com, ix, iy, jx, jy, check_ex, 1, 0))

NestedLoops(com, diameters, check_ex, t, best_result) ==
    LET n == Len(diameters)
    IN  IF t >= n * n * n * n
        THEN [combo |-> None, result |-> best_result]
        ELSE TupleAt(com, diameters, check_ex, t, best_result,
                     diameters[((t \div (n * n * n)) % n) + 1],
                     diameters[((t \div (n * n)) % n) + 1],
                     diameters[((t \div n) % n) + 1],
                     diameters[(t % n) + 1])

_calc_for_row(com, diameters, check_ex) ==
    NestedLoops(com, diameters, check_ex, 0, 0)

(***************************************************************************)
(* NormFEM truss forces (ground_truth/normfem.py, normfem_exact.py).  A    *)
(* calculator instance is the record self; the NormFEM COM server is the   *)
(* record env that fixes which calls raise and what they return.  Every    *)
(* COM call made is appended to calls.                                     *)
(***************************************************************************)
NewCalculator(world) ==
    [nfApi |-> IF world.has_win32com /\ world.dispatch # "fails"
               THEN Some(world.dispatch) ELSE None,
     report_lines |-> <<>>, ArrZ |-> None, ArrNM |-> None, ArrQ |-> None]

report_add(st, message) ==
    [st EXCEPT !.self.report_lines = Append(@, message)]

ComCall(st, method) == [st EXCEPT !.calls = Append(@, method)]

SetArrTables == <<"m00", "g01", "g02", "g03", "l00">>

RECURSIVE SetArrFrom(_, _, _)
SetArrFrom(st, env, i) ==
    IF i > Len(SetArrTables) THEN st
    ELSE IF env.setarr_raises = i
         THEN report_add(ComCall(st, "SetArr"), "[ERROR] add_all_arr")
         ELSE SetArrFrom(
                  report_add(ComCall(st, "SetArr"), "[OK] " \o SetArrTables[i]),
                  env, i + 1)

add_all_arr(st, env) ==
    IF IsNone(st.self.nfApi) THEN st ELSE SetArrFrom(st, env, 1)

SetSteps(st, env) ==
    IF env.steps_raises THEN ComCall(st, "Steps")
    ELSE report_add(ComCall(st, "Steps"), "[OK] Steps")

RunCalc(st, env) ==
    IF env.calc_raises THEN report_add(ComCall(st, "Calc"), "Calc() error")
    ELSE report_add(ComCall(st, "Calc"), "Calc() ok")

ReadApiResult(st, env) ==
    IF IsNone(env.result)
    THEN [report_add(ComCall(st, "Result"), "Result error")
              EXCEPT !.result = FALSE]
    ELSE [report_add(ComCall(st, "Result"), "Result")
              EXCEPT !.result = env.result[1]]

ReportNotResult(st) ==
    IF ~st.result THEN report_add(report_add(st, "not calculated"), "trying to get data")
    ELSE st

GetArr(st, env, field, method) ==
    IF env.getarr[field] = "raises"
    THEN report_add(ComCall(st, method), "[ERROR] " \o method)
    ELSE [report_add(ComCall(st, method), "[OK] " \o field)
              EXCEPT !.self[field] =
                  IF env.getarr[field] = "array" THEN Some(field) ELSE None]

GetAllArr(st, env) ==
    GetArr(GetArr(GetArr(st, env, "ArrZ", "GetArrZ"),
                  env, "ArrNM", "GetArrNM"),
           env, "ArrQ", "GetArrQ")

get_comb(st) == report_add(st, "get_comb")

max_min_n(st) == report_add(st, "max_min_n")

HasData(st) ==
    ~IsNone(st.self.ArrZ) \/ ~IsNone(st.self.ArrNM) \/ ~IsNone(st.self.ArrQ)

ReleaseApi_Keep(st) == st

ReleaseApi(st) == [st EXCEPT !.self.nfApi = None]

ReturnFromCalc(st) ==
    IF HasData(st)
    THEN ReleaseApi([report_add(st, "[SUCCESS]") EXCEPT !.returned = TRUE])
    ELSE ReleaseApi([report_add(st, "[FAIL]") EXCEPT !.returned = st.result])

CalcWithApi(st, env) ==
    ReturnFromCalc(
        max_min_n(get_comb(GetAllArr(ReportNotResult(ReadApiResult(
            RunCalc(SetSteps(report_add(st, "demo mode"), env), env),
            env)), env))))

CalcAfterArrays(st, env) ==
    IF IsNone(st.self.nfApi)
    THEN [report_add(st, "API unavailable") EXCEPT !.returned = FALSE]
    ELSE CalcWithApi(st, env)

calc(self, env) ==
    CalcAfterArrays(
        add_all_arr(
            report_add([self |-> self, calls |-> <<>>, result |-> FALSE,
                        returned |-> FALSE], "calc"),
            env),
        env)

ExactGetArr(st, env, field, method) ==
    IF st.raised # "none" THEN st
    ELSE IF env.getarr[field] = "raises"
    THEN [st EXCEPT !.calls = @ \o <<method, method>>, !.raised = "com_error"]
    ELSE [st EXCEPT !.calls = Append(@, method),
                    ![field] = IF env.getarr[field] = "array"
                               THEN Some(field) ELSE None]

Calc(nfApi, env) ==
    LET st == [nfApi |-> nfApi, calls |-> <<>>, raised |-> "none",
               returned |-> FALSE, ArrZ |-> None, ArrNM |-> None,
               ArrQ |-> None]
    IN  IF IsNone(nfApi) THEN [st EXCEPT !.raised = "AttributeError"]
        ELSE IF env.calc_raises
        THEN [st EXCEPT !.calls = <<"Calc">>, !.raised = "com_error"]
        ELSE IF IsNone(env.result)
        THEN [st EXCEPT !.calls = <<"Calc", "Result">>,
                        !.raised = "com_error"]
        ELSE IF ~env.result[1]
        THEN [st EXCEPT !.calls = <<"Calc", "Result">>, !.returned = FALSE]
        ELSE LET got == ExactGetArr(ExactGetArr(ExactGetArr(
                            [st EXCEPT !.calls = <<"Calc", "Result">>],
                            env, "ArrZ", "GetArrZ"),
                            env, "ArrNM", "GetArrNM"),
                            env, "ArrQ", "GetArrQ")
             IN  IF got.raised # "none" THEN got
                 ELSE [got EXCEPT !.nfApi = None, !.returned = TRUE]

W_roof == <<"r", "o", "o", "f">>

W_krovlya == <<"ru_k", "ru_r", "ru_o", "ru_v", "ru_l", "ru_ya">>

SlabArea(psets) ==
    LET qto_slab == DictGet(psets, "Qto_SlabBaseQuantities", <<>>)
    IN  IF "GrossArea" \in DOMAIN qto_slab THEN qto_slab.GrossArea
        ELSE IF "NetArea" \in DOMAIN qto_slab THEN qto_slab.NetArea
        ELSE 0

RoofArea(psets) ==
    LET roof_pset == DictGet(psets, "Pset_RoofCommon", <<>>)
    IN  IF "ProjectedArea" \in DOMAIN roof_pset THEN roof_pset.ProjectedArea
        ELSE SlabArea(psets)

extract_from_ifc_element(element) ==
    LET ifc_class == DictGet(element, "ifc_class", "")
        predefined_type == DictGet(element, "predefined_type", "")
        name == DictGet(element, "name", <<>>)
        is_roof == \/ ifc_class = "IfcRoof"
                   \/ predefined_type = "ROOF"
                   \/ StrContains(StrLower(name), W_roof)
                   \/ StrContains(StrLower(name), W_krovlya)
        area == RoofArea(DictGet(element, "psets", <<>>))
    IN  IF ~is_roof /\ ifc_class # "IfcSlab" THEN None
        ELSE IF area <= 0 THEN None
        ELSE Some([SnowLoadInput EXCEPT
                      !.element_id = DictGet(element, "global_id", ""),
                      !.element_name = name,
                      !.area_m2 = area])

FileResultBase(data, snow_region) ==
    [element_id |-> data.element_id, element_name |-> data.element_name,
     area_m2 |-> data.area_m2, area_source |-> "from IFC (Qto)",
     snow_region |-> snow_region,
     snow_region_source |-> "default (NOT from IFC)",
     Sg_kPa |-> SnowGroundLoad(snow_region), mu |-> data.mu,
     mu_source |-> "default (NOT from IFC)", Ce |-> data.Ce, Ct |-> data.Ct]

ElementReportPath(report_dir, data) ==
    IF IsNone(report_dir) THEN None
    ELSE Some(<<report_dir[1], "snow_load_", data.element_id, ".txt">>)

AppendSnowResult(acc, base, run) ==
    [results |-> Append(acc.results, run.added @@ base),
     calls |-> Append(acc.calls, run.calls)]

ProcessSnowElement(acc, data, snow_region, report_dir, com) ==
    IF IsNone(data) THEN acc
    ELSE AppendSnowResult(acc, FileResultBase(data[1], snow_region),
             NormCADRun(com, ElementReportPath(report_dir, data[1])))

ProcessSnowLine(acc, line, snow_region, report_dir, com) ==
    IF IsNone(line) THEN acc
    ELSE ProcessSnowElement(acc, extract_from_ifc_element(line[1]),
                            snow_region, report_dir, com)

RECURSIVE ProcessSnowLines(_, _, _, _, _, _)
ProcessSnowLines(lines, i, acc, snow_region, report_dir, com) ==
    IF i > Len(lines) THEN acc
    ELSE ProcessSnowLines(lines, i + 1,
             ProcessSnowLine(acc, lines[i], snow_region, report_dir, com),
             snow_region, report_dir, com)

process_ifc_file(lines, snow_region, report_dir, com) ==
    ProcessSnowLines(lines, 1, [results |-> <<>>, calls |-> <<>>],
                     snow_region, report_dir, com)

(***************************************************************************)
(* NormFEM API availability check (checks/api_check_normfem.py).  st.rows  *)
(* is the list of CheckResult rows, st.calls the COM calls made; env fixes *)
(* which calls of the NormFEM server raise.                                *)
(***************************************************************************)
_run_step(st, name, raises, calls) ==
    [st EXCEPT !.rows = Append(@, [name |-> name, ok |-> ~raises]),
               !.calls = @ \o calls]

LastStepOk(st) == st.rows[Len(st.rows)].ok = TRUE

step_create(st, env) ==
    _run_step(st, <<"COM object ncfem.main">>, env.create_raises, <<"Dispatch">>)

step_setpath(st, opts, env) ==
    IF ~opts.app_path_found THEN _run_step(st, <<"SetPath">>, TRUE, <<>>)
    ELSE _run_step(st, <<"SetPath">>, env.setpath_raises, <<"SetPath">>)

DefaultTables == <<"m00", "g01", "g02", "g03", "l00", "s00">>

setarr(st, env, tbl) ==
    IF env.setarr[tbl] = "ok"
    THEN _run_step(st, <<"SetArr", tbl>>, FALSE, <<"SetArr">>)
    ELSE _run_step(st, <<"SetArr", tbl>>, env.setarr[tbl] = "rejects",
                   <<"SetArr", "SetArr">>)

RECURSIVE SetArrDefaults(_, _, _)
SetArrDefaults(st, env, i) ==
    IF i > Len(DefaultTables) THEN st
    ELSE SetArrDefaults(setarr(st, env, DefaultTables[i]), env, i + 1)

RECURSIVE SetArrExample(_, _, _, _)
SetArrExample(st, env, tables, i) ==
    IF i > Len(tables) THEN st
    ELSE SetArrExample(
             _run_step(st, <<"SetArr", tables[i]>>,
                       env.setarr[tables[i]] = "rejects", <<"SetArr">>),
             env, tables, i + 1)

LoadTables(st, opts, env) ==
    IF opts.use_example
    THEN IF IsNone(env.example)
         THEN [st EXCEPT !.rows =
                  Append(@, [name |-> <<"Example dataset">>, ok |-> FALSE])]
         ELSE SetArrExample(
                  _run_step(st, <<"Load example dir">>, env.example[1] = <<>>,
                            <<>>),
                  env, env.example[1], 1)
    ELSE SetArrDefaults(st, env, 1)

CallProp(st, opts, env) ==
    IF opts.call_prop THEN _run_step(st, <<"Prop">>, env.prop_raises, <<"Prop">>)
    ELSE st

CalcSucceeded_Unchecked(st) == TRUE

CalcSucceeded(st) == LastStepOk(st)

_try_getarr(st, env, method_name) ==
    _run_step(st, <<method_name>>, method_name \in env.getarr_raises,
              <<method_name>>)

ReadArrays(st, env) ==
    IF CalcSucceeded(st)
    THEN _try_getarr(_try_getarr(_try_getarr(st, env, "GetArrZ"),
                                 env, "GetArrNM"),
                     env, "GetArrQ")
    ELSE st

TryCalc(st, opts, env) ==
    IF opts.try_calc
    THEN ReadArrays(_run_step(CallProp(st, opts, env), <<"Calc">>,
                              env.calc_raises, <<"Calc">>),
                    env)
    ELSE st

AfterSetPath(st, opts, env) ==
    IF ~LastStepOk(st) THEN st
    ELSE TryCalc(LoadTables(st, opts, env), opts, env)

AfterCreate(st, opts, env) ==
    IF ~LastStepOk(st) THEN st
    ELSE IF opts.parent_form_mode \notin {"none", "null", "dummy", "form", "dict", "scripting.dictionary"}
    THEN [st EXCEPT !.raised = "ValueError"]
    ELSE AfterSetPath(step_setpath(st, opts, env), opts, env)

check_normfem(opts, env) ==
    AfterCreate(step_create([raised |-> "none", rows |-> <<>>,
                             calls |-> <<>>], env),
                opts, env)

MaxVolume == 10

MaxLength == 10

MaxArea == 1

SelfWeightNames ==
    { <<>>,
      JoinWords(<<W_wood, W_spruce, W_beam>>, <<"_">>),
      Spelling(<<W_steel, W_s235>>, <<>>, <<" ">>, <<>>, "title"),
      JoinWords(<<W_steel, W_concrete>>, <<"-">>),
      JoinWords(<<W_lightweight, W_concrete>>, <<"_">>),
      W_plastic,
      W_stal }

SelfWeightInputs ==
    { demo_params }
    \cup { [SelfWeightParams EXCEPT
              !.element_id = "el", !.ifc_class = "IfcBeam",
              !.volume_m3 = v, !.length_m = l,
              !.cross_section_area_m2 = a, !.material_name = n,
              !.density_kg_m3 = cd, !.gamma_f = gf] :
             v \in {-MaxVolume, 0, MaxVolume},
             l \in {-MaxLength, 0, MaxLength},
             a \in {-MaxArea, 0, MaxArea},
             n \in SelfWeightNames,
             cd \in CustomDensities,
             gf \in {GAMMA_F_PERMANENT_FAV, GAMMA_F_PERMANENT_UNFAV} }

WindRegions == {"Ia", "VII", "IX"}

TerrainTypes == {"A", "B", "C", "D"}

WindLoadInputs ==
    { [WindLoadParams EXCEPT
          !.element_id = "el",
          !.element_height_m = eh, !.element_area_m2 = ea,
          !.wind_region = wr, !.terrain_type = tt,
          !.building_height_m = bh, !.building_width_m = bw,
          !.building_length_m = bl,
          !.surface_type = st, !.custom_aero_coef = cc,
          !.include_pulsation = ip, !.correlation_coef_nu = nu] :
        eh \in {0, 400}, ea \in {-100, 0, 1200},
        wr \in WindRegions, tt \in TerrainTypes,
        bh \in {-100, 100}, bw \in {0, 200},
        bl \in {-1450, 300},
        st \in {"windward", "leeward", "dome"},
        cc \in {None, Some(0), Some(-1200)},
        ip \in BOOLEAN, nu \in {-2000, 800} }

KZeHeights == {-100, 0, 20, 50, 100, 200, 400}

SurfaceTypes == DOMAIN AERO_COEFFICIENTS \cup {"dome"}

CustomCoefficients == {None, Some(0), Some(-1200), Some(500)}

BuildingInputs ==
    [building_height : {-100, 0, 100, 200},
     building_width : {-200, 0, 200},
     building_length : {-1450, -2700, 300},
     wind_region : WindRegions \cup {"III"}, terrain_type : TerrainTypes]

ComScenarios ==
    { [has_win32com |-> FALSE, fail_at |-> "none", license |-> FALSE,
       max_result |-> 0] }
    \cup [has_win32com : {TRUE},
          fail_at : {"none", "__init__", "setup_task", "check_license",
                     "calculate", "save_report"},
          license : BOOLEAN, max_result : {850}]

SnowSingleInputs ==
    [area_m2 : {0, 10000}, snow_region : {"I", "III", "VIII", "IX"},
     mu : {1000, 500}, CeCt : {<<1000, 1000>>, <<800, 900>>},
     roof_angle_deg : {0, 25, 30, 70},
     report_path : {None, Some("report.txt")}, com : ComScenarios]

MaxBatch == 2

\* elements of an IFC extract: a beam in millimetres, a column in metres
\* with a section in millimetres, a slab, a wall without quantities and a
\* door
IfcElements ==
    { [global_id |-> "b1", name |-> "beam", ifc_class |-> "IfcBeam",
       materials |-> <<JoinWords(<<W_wood, W_spruce, W_beam>>, <<"_">>)>>,
       psets |-> [Qto_BeamBaseQuantities |->
                    [NetVolume |-> 54, Length |-> 27000,
                     CrossSectionArea |-> 2]]],
      [global_id |-> "c1", name |-> "column", ifc_class |-> "IfcColumn",
       materials |-> <<>>,
       psets |-> [Qto_ColumnBaseQuantities |-> [Height |-> 10]],
       section_approx |-> [b |-> 1000, h |-> 2000]],
      [global_id |-> "s1", name |-> "slab", ifc_class |-> "IfcSlab",
       materials |-> <<W_concrete, W_steel>>,
       psets |-> [Qto_SlabBaseQuantities |-> [NetVolume |-> 10]],
       section_approx |-> [length |-> 50000]],
      [global_id |-> "w1", ifc_class |-> "IfcWall"],
      [global_id |-> "d1", name |-> "door", ifc_class |-> "IfcDoor",
       materials |-> <<W_wood>>] }

IfcLines == {None} \cup {Some(e) : e \in IfcElements}

RECURSIVE SeqsUpTo(_, _)
SeqsUpTo(S, n) ==
    IF n = 0 THEN {<<>>}
    ELSE LET shorter == SeqsUpTo(S, n - 1)
         IN  shorter \cup {Append(q, x) : q \in shorter, x \in S}

IfcFiles == SeqsUpTo(IfcLines, MaxBatch)

\* elements for the extraction: lengths of exactly 100, above and below;
\* section sides in millimetres and in metres; placements with and without
\* a height
BeamQuantities ==
    { [Length |-> 1000], [Length |-> 27000, CrossSectionArea |-> 2],
      [NetVolume |-> 54] }

ColumnQuantities == { <<>>, [Height |-> 1000], [Length |-> 30000] }

SectionApprox ==
    { <<>>, [b |-> 1000, h |-> 1000], [b |-> 1, h |-> 2, length |-> 1000],
      [b |-> 2000, h |-> 0, length |-> 50000] }

Placements ==
    { <<>>, [xyz |-> <<0, 0, 1000>>], [xyz |-> <<0, 0, 30000>>],
      [xyz |-> <<0, 0>>] }

ExtractElements ==
    { [global_id |-> "e1", name |-> "element", ifc_class |-> "IfcBeam",
       psets |-> [Qto_BeamBaseQuantities |-> qb,
                  Qto_ColumnBaseQuantities |-> qc,
                  Qto_WallBaseQuantities |-> [GrossSideArea |-> 1200]],
       section_approx |-> sa, placement |-> pl] :
        qb \in BeamQuantities, qc \in ColumnQuantities,
        sa \in SectionApprox, pl \in Placements }
    \cup IfcElements

MaxThicker == 2

RequiredDiameters == {10 + 2 * k : k \in 0..MaxThicker}

VarsObjects ==
    [required : [1..4 -> RequiredDiameters], ratio : {1, 2},
     unreadable : {None, Some(10), Some(12)}]

DiameterLists == {<<10>>, <<10, 12>>, <<12, 10>>}

CheckLists == {<<"6.2.7">>, <<"6.2.7", "8.3.4">>}

MaxCalcs == 2

NormFEMWorlds ==
    { [has_win32com |-> FALSE, dispatch |-> "fails"],
      [has_win32com |-> TRUE, dispatch |-> "fails"],
      [has_win32com |-> TRUE, dispatch |-> "ncfemapi.main"] }

NormFEMServers ==
    [setarr_raises : {0, 1, 5}, steps_raises : BOOLEAN,
     calc_raises : BOOLEAN, result : {Some(TRUE), Some(FALSE), None},
     getarr : [{"ArrZ", "ArrNM", "ArrQ"} -> {"array", "none", "raises"}]]

NormFEMRepeatServers ==
    {env \in NormFEMServers :
        /\ env.setarr_raises = 0 /\ ~env.steps_raises /\ ~env.calc_raises
        /\ \A f, g \in DOMAIN env.getarr : env.getarr[f] = env.getarr[g]
        /\ env.getarr.ArrZ # "none"
        /\ env.result # None}

SnowElements ==
    { [global_id |-> "r1", name |-> <<"R", "o", "o", "f">>,
       ifc_class |-> "IfcRoof",
       psets |-> [Pset_RoofCommon |-> [ProjectedArea |-> 10000],
                  Qto_SlabBaseQuantities |-> [GrossArea |-> 12000]]],
      [global_id |-> "s1", name |-> <<"f", "l", "o", "o", "r">>,
       ifc_class |-> "IfcSlab",
       psets |-> [Qto_SlabBaseQuantities |-> [GrossArea |-> 5000,
                                              NetArea |-> 4000]]],
      [global_id |-> "s2", ifc_class |-> "IfcSlab",
       predefined_type |-> "ROOF",
       psets |-> [Qto_SlabBaseQuantities |-> [NetArea |-> 0]]],
      [global_id |-> "k1",
       name |-> <<"RU_K", "RU_R", "RU_O", "RU_V", "RU_L", "ru_ya">>,
       ifc_class |-> "IfcCovering",
       psets |-> [Qto_SlabBaseQuantities |-> [NetArea |-> 2000]]],
      [global_id |-> "w1", name |-> <<"w", "a", "l", "l">>,
       ifc_class |-> "IfcWall",
       psets |-> [Qto_SlabBaseQuantities |-> [GrossArea |-> 3000]]] }

SnowFiles == SeqsUpTo({None} \cup {Some(e) : e \in SnowElements}, MaxBatch)

SnowFileInputs ==
    [lines : SnowFiles, snow_region : {"III", "IX"},
     report_dir : {None, Some("reports")}, com : ComScenarios]

CheckOptions ==
    [app_path_found : BOOLEAN, try_calc : BOOLEAN, use_example : BOOLEAN,
     parent_form_mode : {"none", "window"}, call_prop : BOOLEAN]

CheckServers ==
    [create_raises : BOOLEAN, setpath_raises : BOOLEAN,
     setarr : {[t \in {"m00", "g01", "g02", "g03", "l00", "s00"} |-> "ok"],
               [t \in {"m00", "g01", "g02", "g03", "l00", "s00"} |->
                   IF t = "m00" THEN "rejects_empty"
                   ELSE IF t = "l00" THEN "rejects" ELSE "ok"]},
     example : {None, Some(<<>>), Some(<<"g01", "l00">>)},
     prop_raises : BOOLEAN, calc_raises : BOOLEAN,
     getarr_raises : {{}, {"GetArrNM"}, {"GetArrZ", "GetArrNM", "GetArrQ"}}]

(***************************************************************************)
(* The state machine: from "idle" one calculator is applied to one input;  *)
(* its arguments and its return value are kept until the next call.        *)
(***************************************************************************)
NoArgs == [op |-> "none"]

NoRet == [raised |-> "none", op |-> "none"]

Init ==
    /\ pc = "idle"
    /\ args = NoArgs
    /\ ret = NoRet

CallGetMaterialDensity ==
    /\ pc = "idle"
    /\ \E name \in MaterialNames, custom \in CustomDensities :
         /\ args' = [op |-> "get_material_density",
                     material_name |-> name, custom_density |-> custom]
         /\ ret' = [raised |-> "none", op |-> "get_material_density",
                    value |-> get_material_density(name, custom)]
    /\ pc' = "get_material_density"

CallCalculateSelfWeight ==
    /\ pc = "idle"
    /\ \E params \in SelfWeightInputs :
         /\ args' = [op |-> "calculate_self_weight", params |-> params]
         /\ ret' = [raised |-> "none", op |-> "calculate_self_weight",
                    value |-> calculate_self_weight(params)]
    /\ pc' = "calculate_self_weight"

CallCalculateWindLoad ==
    /\ pc = "idle"
    /\ \E params \in WindLoadInputs :
         /\ args' = [op |-> "calculate_wind_load", params |-> params]
         /\ ret' = [op |-> "calculate_wind_load"]
                    @@ calculate_wind_load(params)
    /\ pc' = "calculate_wind_load"

CallExtractSelfWeightParams ==
    /\ pc = "idle"
    /\ \E element \in ExtractElements :
         /\ args' = [op |-> "extract_self_weight_params_from_ifc_element",
                     element |-> element]
         /\ ret' = [raised |-> "none",
                    op |-> "extract_self_weight_params_from_ifc_element",
                    value |->
                      extract_self_weight_params_from_ifc_element(element)]
    /\ pc' = "extract_self_weight_params"

CallExtractWindParams ==
    /\ pc = "idle"
    /\ \E element \in ExtractElements :
         /\ args' = [op |-> "extract_wind_params_from_ifc_element",
                     element |-> element]
         /\ ret' = [raised |-> "none",
                    op |-> "extract_wind_params_from_ifc_element",
                    value |-> extract_wind_params_from_ifc_element(element)]
    /\ pc' = "extract_wind_params"

CallProcessIfcData ==
    /\ pc = "idle"
    /\ \E lines \in IfcFiles, output_path \in {None, Some("out.json")} :
         /\ args' = [op |-> "process_ifc_data", lines |-> lines,
                     output_path |-> output_path]
         /\ ret' = [raised |-> "none", op |-> "process_ifc_data",
                    value |-> process_ifc_data(lines, output_path)]
    /\ pc' = "process_ifc_data"

CallCalculateKZe ==
    /\ pc = "idle"
    /\ \E ze \in KZeHeights, terrain_type \in TerrainTypes :
         /\ args' = [op |-> "calculate_k_ze", ze |-> ze,
                     terrain_type |-> terrain_type]
         /\ ret' = [raised |-> "none", op |-> "calculate_k_ze",
                    value |-> calculate_k_ze(ze, terrain_type)]
    /\ pc' = "calculate_k_ze"

CallGetAeroCoefficient ==
    /\ pc = "idle"
    /\ \E surface_type \in SurfaceTypes, custom \in CustomCoefficients :
         /\ args' = [op |-> "get_aero_coefficient",
                     surface_type |-> surface_type, custom |-> custom]
         /\ ret' = [raised |-> "none", op |-> "get_aero_coefficient",
                    value |-> get_aero_coefficient(surface_type, custom)]
    /\ pc' = "get_aero_coefficient"

CallCalculateWindForBuilding ==
    /\ pc = "idle"
    /\ \E b \in BuildingInputs :
         /\ args' = [op |-> "calculate_wind_for_building"] @@ b
         /\ ret' = [op |-> "calculate_wind_for_building"]
                    @@ calculate_wind_for_building(
                           b.building_height, b.building_width,
                           b.building_length, b.wind_region,
                           b.terrain_type)
    /\ pc' = "calculate_wind_for_building"

CallCalculateSingle ==
    /\ pc = "idle"
    /\ \E a \in SnowSingleInputs :
         /\ args' = [op |-> "calculate_single"] @@ a
         /\ ret' = [raised |-> "none", op |-> "calculate_single",
                    value |-> calculate_single(
                        a.area_m2, a.snow_region, a.mu, a.CeCt[1],
                        a.CeCt[2], a.roof_angle_deg, a.report_path, a.com)]
    /\ pc' = "calculate_single"

CallCalcForRow ==
    /\ pc = "idle"
    /\ \E com \in VarsObjects, diameters \in DiameterLists, check_ex \in CheckLists :
         /\ args' = [op |-> "_calc_for_row", com |-> com,
                     diameters |-> diameters, check_ex |-> check_ex]
         /\ ret' = [raised |-> "none", op |-> "_calc_for_row",
                    value |-> _calc_for_row(com, diameters, check_ex)]
    /\ pc' = "_calc_for_row"

CallCalcOnNewCalculator ==
    /\ pc = "idle"
    /\ \E world \in NormFEMWorlds :
         \E env \in IF IsNone(NewCalculator(world).nfApi) THEN NormFEMRepeatServers ELSE NormFEMServers :
           /\ args' = [op |-> "calc", self |-> NewCalculator(world),
                       env |-> env, nth |-> 1]
           /\ ret' = [raised |-> "none", op |-> "calc",
                      value |-> calc(NewCalculator(world), env)]
    /\ pc' = "calc"

CallCalcAgain ==
    /\ pc = "calc"
    /\ args.nth < MaxCalcs
    /\ \E env \in NormFEMRepeatServers :
         /\ args' = [op |-> "calc", self |-> ret.value.self, env |-> env,
                     nth |-> args.nth + 1]
         /\ ret' = [raised |-> "none", op |-> "calc",
                    value |-> calc(ret.value.self, env)]
    /\ pc' = "calc"

CallCalcExact ==
    /\ pc = "idle"
    /\ \E nfApi \in {None, Some("ncfem.main")} :
         \E env \in IF IsNone(nfApi) THEN NormFEMRepeatServers ELSE NormFEMServers :
           /\ args' = [op |-> "Calc", nfApi |-> nfApi, env |-> env]
           /\ ret' = [raised |-> Calc(nfApi, env).raised, op |-> "Calc",
                      value |-> Calc(nfApi, env)]
    /\ pc' = "Calc"

CallProcessIfcFile ==
    /\ pc = "idle"
    /\ \E a \in SnowFileInputs :
         /\ args' = [op |-> "process_ifc_file"] @@ a
         /\ ret' = [raised |-> "none", op |-> "process_ifc_file",
                    value |-> process_ifc_file(a.lines, a.snow_region,
                                               a.report_dir, a.com)]
    /\ pc' = "process_ifc_file"

CallCheckNormfem ==
    /\ pc = "idle"
    /\ \E opts \in CheckOptions, env \in CheckServers :
         /\ args' = [op |-> "check_normfem", opts |-> opts, env |-> env]
         /\ ret' = [raised |-> check_normfem(opts, env).raised,
                    op |-> "check_normfem",
                    value |-> check_normfem(opts, env)]
    /\ pc' = "check_normfem"

Return ==
    /\ pc # "idle"
    /\ pc' = "idle"
    /\ args' = NoArgs
    /\ ret' = NoRet

Next ==
    \/ CallGetMaterialDensity
    \/ CallCalculateSelfWeight
    \/ CallExtractSelfWeightParams
    \/ CallExtractWindParams
    \/ CallProcessIfcData
    \/ CallCalculateWindLoad
    \/ CallCalculateKZe
    \/ CallGetAeroCoefficient
    \/ CallCalculateWindForBuilding
    \/ CallCalculateSingle
    \/ CallCalcForRow
    \/ CallCalcOnNewCalculator
    \/ CallCalcAgain
    \/ CallCalcExact
    \/ CallProcessIfcFile
    \/ CallCheckNormfem
    \/ Return

Spec == Init /\ [][Next]_vars

(***************************************************************************)
(* Properties.                                                             *)
(***************************************************************************)
Params == args.params

Result == ret.value

AfterSelfWeight == pc = "calculate_self_weight"

AfterWindLoad == pc = "calculate_wind_load"

AfterDensity == pc = "get_material_density"

AfterSnowSingle == pc = "calculate_single"

\* C1: calculate_self_weight, calculate_wind_load and
\* calculate_wind_for_building never raise, whatever the numeric inputs:
\* every call returns a result.
C1_NeverRaises ==
    pc \in {"calculate_self_weight", "calculate_wind_load",
            "calculate_wind_for_building"}
        => ret.raised = "none"

\* C2: in every result of calculate_wind_load, w_norm is wm + wp for
\* wm >= 0 and wm - wp for wm < 0, its magnitude is at least that of wm
\* and its sign is never opposite to that of wm.
C2_PulsationAddsMagnitude ==
    (AfterWindLoad /\ ret.raised = "none") =>
        /\ Result.w_norm = (IF Result.wm >= 0 THEN Result.wm + Result.wp
                            ELSE Result.wm - Result.wp)
        /\ Abs(Result.w_norm) >= Abs(Result.wm)
        /\ Sign(Result.w_norm) * Sign(Result.wm) >= 0

\* the volume the specification prescribes for the params
C3_SpecifiedVolume(p) ==
    IF p.volume_m3 > 0 THEN p.volume_m3
    ELSE IF p.length_m > 0 /\ p.cross_section_area_m2 > 0
    THEN p.length_m * p.cross_section_area_m2
    ELSE 0

\* C3: calculate_self_weight takes volume_m3 when it is positive, else
\* length x area when both are positive, else exactly 0 with the
\* "volume not defined" warning; volume_m3 and mass_kg of the result come
\* from that volume.
C3_VolumeResolution ==
    AfterSelfWeight =>
        /\ Result.volume_m3 = C3_SpecifiedVolume(Params)
        /\ Result.mass_kg = Result.density_kg_m3 * C3_SpecifiedVolume(Params)
        /\ (Params.volume_m3 <= 0
              /\ ~(Params.length_m > 0 /\ Params.cross_section_area_m2 > 0))
           => Result.notes[2].kind = "volume_undefined"

\* the words of a name: its lower-cased maximal runs of non-separators
RECURSIVE WordsOf(_, _)
WordsOf(s, word) ==
    IF s = <<>> THEN (IF word = <<>> THEN <<>> ELSE <<word>>)
    ELSE IF Head(s) \in SeparatorChars
         THEN (IF word = <<>> THEN <<>> ELSE <<word>>)
              \o WordsOf(Tail(s), <<>>)
         ELSE WordsOf(Tail(s), Append(word, CharLower(Head(s))))

\* the spelling "wood_spruce" of a name: its words joined by one underscore
CanonicalSpelling(name) == JoinWords(WordsOf(name, <<>>), <<"_">>)

\* C4: get_material_density gives a name the density of its canonical
\* spelling, whatever the case, the whitespace and the separators used,
\* wherever they occur in the name.
C4_SpellingInvariant ==
    AfterDensity =>
        Result.density =
            get_material_density(CanonicalSpelling(args.material_name),
                                 args.custom_density).density

NoPositiveCustom(custom) == IsNone(custom) \/ custom[1] <= 0

MatchesGroup(normalized, i) ==
    \E k \in 1..Len(keywords_density[i].keywords) :
        StrContains(normalized, keywords_density[i].keywords[k])

\* the name is empty, or is neither a table key nor contains a keyword
UnknownMaterial(name) ==
    \/ name = <<>>
    \/ /\ normalize_material_name(name) \notin DOMAIN MATERIAL_DENSITIES
       /\ \A i \in 1..Len(keywords_density) :
              ~MatchesGroup(normalize_material_name(name), i)

\* C5: without a positive custom density, an empty or unknown material
\* name gives density 2500 with source "default", and calculate_self_weight
\* then records, as its first note, the warning naming the material and
\* the assumed density.
C5_DefaultToConcrete ==
    /\ (AfterDensity /\ NoPositiveCustom(args.custom_density)
          /\ UnknownMaterial(args.material_name))
       => Result = [density |-> 2500, source |-> "default"]
    /\ (AfterSelfWeight /\ NoPositiveCustom(Params.density_kg_m3)
          /\ UnknownMaterial(Params.material_name))
       => /\ Result.density_kg_m3 = 2500
          /\ Result.density_source = "default"
          /\ Result.notes[1] =
                [kind |-> "density_default", warning |-> TRUE,
                 material |-> Params.material_name, ro |-> 2500]

C5_Witness ==
    /\ AfterSelfWeight
    /\ Params.material_name = W_plastic
    /\ Params.density_kg_m3 = Some(-100)
    /\ Result.notes[1].kind = "density_default"
    /\ Result.notes[1].material = W_plastic

\* the densities of the keyword groups, in the order steel, wood, concrete,
\* brick, aluminum, glass, gypsum
C6_GroupDensities == <<7850, 500, 2500, 1800, 2700, 2500, 1200>>

C7_LinearLoad ==
    AfterSelfWeight =>
        /\ Params.length_m > 0
           => Result.linear_load_kN_m =
                  Some(TruncDiv(Result.weight_calc_kN, Params.length_m))
        /\ Params.length_m <= 0 => Result.linear_load_kN_m = None
        /\ (Params.length_m > 0 /\ Result.weight_calc_kN = 0)
           => (Result.linear_load_kN_m = Some(0)
                 /\ Result.linear_load_kN_m # None)

C7_Witness ==
    /\ AfterSelfWeight
    /\ Params.length_m > 0
    /\ Result.weight_calc_kN = 0
    /\ Result.linear_load_kN_m = Some(0)

\* the step of the calculation that a note documents
StepOfNote(note) ==
    CASE note.kind \in {"density_default", "density_lookup",
                        "density_custom"} -> "density"
      [] note.kind \in {"volume_computed", "volume_ifc",
                        "volume_undefined"} -> "volume"
      [] OTHER -> note.kind

\* C8: the notes of a calculate_self_weight result are one note per step
\* in the order density, volume, mass, normative weight, factored weight,
\* followed by one linear-load note exactly when length_m > 0.
C8_NotesOrder ==
    AfterSelfWeight =>
        [i \in 1..Len(Result.notes) |-> StepOfNote(Result.notes[i])]
          = <<"density", "volume", "mass", "weight_norm", "weight_calc">>
            \o (IF Params.length_m > 0 THEN <<"linear_load">> ELSE <<>>)

C8_Witness ==
    /\ AfterSelfWeight
    /\ Len(Result.notes) = 5
    /\ Result.notes[1].kind = "density_default"
    /\ Result.notes[2].kind = "volume_undefined"
    /\ Params.length_m < 0

\* mass = density x volume, normative weight = mass x 9.81/1000 and
\* factored weight = normative weight x the gamma_f of the params
C9_WeightChain ==
    /\ Result.mass_kg = Result.density_kg_m3 * Result.volume_m3
    /\ Result.weight_norm_kN = Result.mass_kg * 981
    /\ Result.weight_calc_kN = Result.weight_norm_kN * Params.gamma_f
    /\ Result.gamma_f = Params.gamma_f

\* C9 as stated: the weight chain holds for every input and the
\* demonstration element (0.054 m3 of wood_spruce_beam, default gamma_f 1.1)
\* weighs 24.3 kg, 0.2384 kN and, factored, 0.2623 kN to 4 decimals.
C9_DemoAsStated ==
    AfterSelfWeight =>
        /\ C9_WeightChain
        /\ Params = demo_params
           => /\ Params.gamma_f = 11
              /\ Result.density_kg_m3 = 450
              /\ Result.mass_kg = 24300
              /\ FormatFixed(Result.weight_norm_kN, 8, 4) = 2384
              /\ FormatFixed(Result.weight_calc_kN, 9, 4) = 2623

\* C9, amended: the same, with the factored weight 0.2622 kN.
C9_DemoAmended ==
    AfterSelfWeight =>
        /\ C9_WeightChain
        /\ Params = demo_params
           => /\ Params.gamma_f = 11
              /\ Result.density_kg_m3 = 450
              /\ Result.mass_kg = 24300
              /\ FormatFixed(Result.weight_norm_kN, 8, 4) = 2384
              /\ FormatFixed(Result.weight_calc_kN, 9, 4) = 2622

C9_Witness ==
    /\ AfterSelfWeight
    /\ Params = demo_params
    /\ Result.weight_calc_kN = 262221300

SnowResult == Result.result

\* the documented example: angle 0, region III, mu = Ce = Ct = 1.0, 100 m2
C11_Example ==
    /\ args.area_m2 = 10000
    /\ args.snow_region = "III"
    /\ args.mu = 1000
    /\ args.CeCt = <<1000, 1000>>
    /\ args.roof_angle_deg = 0

C12_KnownRegions == {"I", "II", "III", "IV", "V", "VI", "VII", "VIII"}

\* C12: for a snow region outside I..VIII the snow load calculation uses
\* Sg = 1.5 kPa and its result has a fallback warning note that mentions
\* the unknown region code; for a known region it uses that region's table
\* value.
C12_UnknownSnowRegion ==
    AfterSnowSingle =>
        IF args.snow_region \in C12_KnownRegions
        THEN SnowResult.Sg_kPa = SNOW_REGIONS_SG[args.snow_region]
        ELSE /\ SnowResult.Sg_kPa = 1500
             /\ "notes" \in DOMAIN SnowResult
             /\ \E i \in DOMAIN SnowResult.notes :
                  /\ SnowResult.notes[i].warning
                  /\ SnowResult.notes[i].region = args.snow_region

AfterKZe == pc = "calculate_k_ze"

\* C13: for a known terrain type and a height not above its z0 (zero and
\* negative heights included) calculate_k_ze returns what it returns for
\* z0 itself; terrain B gives k = k10 = 0.65 and zeta = 1.06 both for
\* ze = 2 m and for ze = 10 m.
C13_ClampBeforePower ==
    AfterKZe =>
        /\ \A t \in {"A", "B", "C"} :
             (args.terrain_type = t /\ args.ze <= TERRAIN_PARAMS[t].z0)
                => ret.value = calculate_k_ze(TERRAIN_PARAMS[t].z0, t)
        /\ (args.terrain_type = "B" /\ args.ze \in {20, 100})
             => ret.value = [k |-> 650, zeta |-> 1060]

C13_Witness ==
    /\ AfterKZe
    /\ args.terrain_type = "C"
    /\ args.ze = 20
    /\ ret.value = calculate_k_ze(200, "C")
    /\ ret.value # calculate_k_ze(400, "C")

C14_Clamp(x) == Max(400, Min(1000, x))

\* C14: with include_pulsation true and building width and height both
\* positive, the wind load result's nu is clamp(1/(1 + 0.8 x (rho + chi)),
\* 0.4, 1.0) with rho = width/(10 x height) and chi = length/(10 x height),
\* so 0.4 <= nu <= 1.0 for every building length; in every other case nu is
\* the caller-supplied correlation_coef_nu.
C14_NuClamped ==
    AfterWindLoad =>
        IF /\ Params.include_pulsation
           /\ Params.building_width_m > 0
           /\ Params.building_height_m > 0
        THEN LET rho == FDiv(Params.building_width_m,
                             10 * Params.building_height_m)
                 chi == FDiv(Params.building_length_m,
                             10 * Params.building_height_m)
             IN  /\ ret.raised = "none"
                 /\ Result.nu
                      = C14_Clamp(FDiv(1000, 1000 + FMul(800, rho + chi)))
                 /\ Result.nu >= 400
                 /\ Result.nu <= 1000
        ELSE /\ ret.raised = "none"
             /\ Result.nu = Params.correlation_coef_nu

\* a warning note whose field f holds v
C15_Warns(notes, f, v) ==
    \E i \in DOMAIN notes :
        /\ notes[i].warning
        /\ f \in DOMAIN notes[i]
        /\ notes[i][f] = v

\* a warning note of the given kind
C15_WarnsOf(notes, kind) ==
    \E i \in DOMAIN notes : notes[i].warning /\ notes[i].kind = kind

\* C15: whenever a calculator substitutes a fallback (unknown wind or snow
\* region, unknown material, terrain or surface type, non-positive area or
\* volume), the notes of the returned result hold an explanatory warning
\* note for that substitution.
C15_FallbackNoted ==
    /\ (AfterWindLoad /\ ret.raised = "none") =>
         /\ Params.wind_region \notin DOMAIN WIND_REGIONS_W0
              => C15_Warns(Result.notes, "region", Params.wind_region)
         /\ Params.terrain_type \notin DOMAIN TERRAIN_PARAMS
              => C15_Warns(Result.notes, "terrain", Params.terrain_type)
         /\ (/\ Params.surface_type \notin DOMAIN AERO_COEFFICIENTS
             /\ IsNone(Params.custom_aero_coef))
              => C15_Warns(Result.notes, "surface", Params.surface_type)
         /\ Params.element_area_m2 <= 0
              => C15_WarnsOf(Result.notes, "area")
    /\ AfterSelfWeight =>
         /\ Result.density_source = "default"
              => C15_Warns(Result.notes, "material", Params.material_name)
         /\ Result.volume_m3 <= 0
              => C15_WarnsOf(Result.notes, "volume_undefined")
    /\ AfterSnowSingle =>
         (args.snow_region \notin DOMAIN SNOW_REGIONS_SG
            => /\ "notes" \in DOMAIN SnowResult
               /\ C15_Warns(SnowResult.notes, "region", args.snow_region))

AfterProcessIfcData == pc = "process_ifc_data"

\* the elements of the file that process_ifc_data computes, in file order
C16_Processed(lines) ==
    SelectSeq(lines,
              LAMBDA l : /\ ~IsNone(l)
                         /\ "ifc_class" \in DOMAIN l[1]
                         /\ l[1]["ifc_class"] \in StructuralClasses)

\* C16: after process_ifc_data every returned SelfWeightResult, its notes
\* included, equals what calculate_self_weight returns on its own for the
\* params extracted from that element.
C16_ResultsNotModified ==
    AfterProcessIfcData =>
        LET processed == C16_Processed(args.lines)
        IN  /\ Len(Result.results) = Len(processed)
            /\ \A i \in DOMAIN processed :
                 Result.results[i]
                   = calculate_self_weight(
                         extract_self_weight_params_from_ifc_element(
                             processed[i][1]))

AfterWindForBuilding == pc = "calculate_wind_for_building"

C18_Surfaces == {"windward", "leeward", "side", "roof_flat"}

\* the parameters of one surface of the building, taken on their own
C18_Params(surface) ==
    LET H == args.building_height
        W == args.building_width
        L == args.building_length
    IN  [WindLoadParams EXCEPT
            !.element_id = <<"surface_", surface>>,
            !.element_name = <<"surface: ", surface>>,
            !.element_height_m = IF surface = "roof_flat" THEN H
                                 ELSE TruncDiv(H, 2),
            !.element_area_m2 = CASE surface = "side" -> L * H
                                  [] surface = "roof_flat" -> W * L
                                  [] OTHER -> W * H,
            !.wind_region = args.wind_region,
            !.terrain_type = args.terrain_type,
            !.building_height_m = H,
            !.building_width_m = W,
            !.building_length_m = L,
            !.surface_type = surface]

\* C18: calculate_wind_for_building returns exactly the four entries
\* windward, leeward, side and roof_flat, and each entry equals the result
\* of calculate_wind_load applied on its own to that surface's parameters
\* (area width x height, length x height or width x length; reference
\* height H/2 for the walls and H for the roof).
C18_FourIndependentSurfaces ==
    AfterWindForBuilding =>
        /\ ret.raised = "none"
        /\ DOMAIN ret.value = C18_Surfaces
        /\ \A surface \in C18_Surfaces :
             LET alone == calculate_wind_load(C18_Params(surface))
             IN  /\ alone.raised = "none"
                 /\ ret.value[surface] = alone.value

\* C19: where calculate_wind_load returns a result, an unknown wind region
\* gives w0 = 0.38 kPa and a first note that is a warning naming the
\* region; a known region gives its table value and no region warning.
C19_UnknownWindRegion ==
    (AfterWindLoad /\ ret.raised = "none") =>
        IF Params.wind_region
             \in {"Ia", "I", "II", "III", "IV", "V", "VI", "VII"}
        THEN /\ Result.w0 = WIND_REGIONS_W0[Params.wind_region]
             /\ ~C15_Warns(Result.notes, "region", Params.wind_region)
        ELSE /\ Result.w0 = 380
             /\ Result.notes[1].warning
             /\ Result.notes[1].region = Params.wind_region
             /\ Result.notes[1].w0 = 380

C19_Witness ==
    /\ AfterWindLoad
    /\ ret.raised = "none"
    /\ Params.wind_region = "IX"
    /\ Result.w0 = 380
    /\ Result.notes[1].warning
    /\ Result.wm # 0

\* k(ze) and zeta(ze) of terrain B: alpha 0.20, k10 0.65, zeta10 1.06,
\* z0 10 m
C20_TerrainB(ze) ==
    [k |-> FMul(650, FloatPow(Max(ze, 100), 40)),
     zeta |-> FMul(1060, FloatPow(Max(ze, 100), -20))]

\* C20: for a terrain type other than A, B or C a returned wind load result
\* has k(ze) and zeta(ze) computed with terrain B's parameters and a
\* warning note naming the unknown type; calculate_k_ze called directly
\* with an unknown terrain type uses B's parameters too.
C20_UnknownTerrain ==
    /\ (/\ AfterWindLoad
        /\ ret.raised = "none"
        /\ Params.terrain_type \notin {"A", "B", "C"})
         => LET ze == IF Params.element_height_m > 0
                      THEN Params.element_height_m
                      ELSE Params.building_height_m
            IN  /\ Result.k_ze = C20_TerrainB(ze).k
                /\ Result.zeta = C20_TerrainB(ze).zeta
                /\ C15_Warns(Result.notes, "terrain", Params.terrain_type)
    /\ (AfterKZe /\ args.terrain_type \notin {"A", "B", "C"})
         => ret.value = C20_TerrainB(args.ze)

C20_Witness ==
    /\ AfterWindLoad
    /\ ret.raised = "none"
    /\ Params.terrain_type = "D"
    /\ Params.element_height_m = 400
    /\ Result.k_ze > 650
    /\ Result.zeta < 1060
    /\ C15_Warns(Result.notes, "terrain", "D")

\* C21 as stated: in every calculate_wind_load result w_calc = w_norm x
\* gamma_f with gamma_f = 1.4, and total_load_kN = |w_calc| x area_m2 where
\* area_m2 is the element area of the input.
C21_TotalOverInputArea ==
    (AfterWindLoad /\ ret.raised = "none") =>
        /\ Result.gamma_f = 1400
        /\ Result.w_calc = FMul(Result.w_norm, 1400)
        /\ Result.area_m2 = Params.element_area_m2
        /\ Result.total_load_kN
             = Abs(Result.w_calc) * Params.element_area_m2

\* C21, amended: in every calculate_wind_load result w_calc = w_norm x
\* gamma_f with gamma_f = 1.4, and total_load_kN = |w_calc| x area_m2 where
\* area_m2 is the element area of the input if that is positive and 0
\* otherwise; the total is never negative, for pressure and suction alike.
C21_TotalOverResultArea ==
    (AfterWindLoad /\ ret.raised = "none") =>
        /\ Result.gamma_f = 1400
        /\ Result.w_calc = FMul(Result.w_norm, 1400)
        /\ Result.area_m2 = IF Params.element_area_m2 > 0
                            THEN Params.element_area_m2 ELSE 0
        /\ Result.total_load_kN = Abs(Result.w_calc) * Result.area_m2
        /\ Result.total_load_kN >= 0

C21_Witness ==
    /\ AfterWindLoad
    /\ ret.raised = "none"
    /\ Params.element_area_m2 = 1200
    /\ Result.w_calc < 0
    /\ Result.total_load_kN = -Result.w_calc * 1200

AfterAeroCoefficient == pc = "get_aero_coefficient"

C22_Table ==
    ("windward" :> 800) @@ ("leeward" :> -500) @@ ("side" :> -600)
    @@ ("roof_flat" :> -700) @@ ("roof_windward" :> -600)
    @@ ("roof_leeward" :> -400)

\* C22: get_aero_coefficient returns the caller-supplied coefficient
\* whenever one is supplied (0 and negative values included) and otherwise
\* the table value of the named surface type; in a calculate_wind_load
\* result c is chosen the same way and wm has the sign of c.
C22_AeroCoefficient ==
    /\ AfterAeroCoefficient =>
         /\ ~IsNone(args.custom) => ret.value = args.custom[1]
         /\ (IsNone(args.custom) /\ args.surface_type \in DOMAIN C22_Table)
              => ret.value = C22_Table[args.surface_type]
    /\ (AfterWindLoad /\ ret.raised = "none") =>
         /\ ~IsNone(Params.custom_aero_coef)
              => Result.c = Params.custom_aero_coef[1]
         /\ (/\ IsNone(Params.custom_aero_coef)
             /\ Params.surface_type \in DOMAIN C22_Table)
              => Result.c = C22_Table[Params.surface_type]
         /\ Sign(Result.wm) = Sign(Result.c)

C22_Witness ==
    /\ AfterAeroCoefficient
    /\ args.surface_type = "roof_leeward"
    /\ args.custom = Some(0)
    /\ ret.value = 0

AfterExtractSelfWeight == pc = "extract_self_weight_params"

AfterExtractWind == pc = "extract_wind_params"

\* the one rule of C23, on a value in tenths of its unit: above 100 the
\* value is millimetres, up to 100 (exactly 100 included) it is metres
C23_Over100(v) == IF v > 1000 THEN RoundDiv(v, 1000) ELSE v

\* the rule found for the section sides: above 1 the value is millimetres
C23_Over1(v) == IF v > 10 THEN RoundDiv(v, 1000) ELSE v

C23_Qto(name) ==
    LET psets == DictGet(args.element, "psets", <<>>)
    IN  DictGet(psets, name, <<>>)

C23_Section == DictGet(args.element, "section_approx", <<>>)

\* the raw length that is read: the column's Length or Height, else the
\* beam's Length, else the section's length; None if there is none
C23_RawLength ==
    LET qc == C23_Qto("Qto_ColumnBaseQuantities")
        qb == C23_Qto("Qto_BeamBaseQuantities")
    IN  IF "Length" \in DOMAIN qc THEN Some(qc["Length"])
        ELSE IF "Height" \in DOMAIN qc THEN Some(qc["Height"])
        ELSE IF "Length" \in DOMAIN qb THEN Some(qb["Length"])
        ELSE IF "length" \in DOMAIN C23_Section
        THEN Some(C23_Section["length"])
        ELSE None

\* the section sides are read when no cross section area is given
C23_SidesRead ==
    /\ "CrossSectionArea" \notin DOMAIN C23_Qto("Qto_ColumnBaseQuantities")
    /\ "CrossSectionArea" \notin DOMAIN C23_Qto("Qto_BeamBaseQuantities")
    /\ DictGet(C23_Section, "b", 0) > 0
    /\ DictGet(C23_Section, "h", 0) > 0

C23_HeightRead ==
    /\ "placement" \in DOMAIN args.element
    /\ "xyz" \in DOMAIN args.element["placement"]
    /\ Len(args.element["placement"]["xyz"]) >= 3

C24_Permutations(n) ==
    {f \in [1..n -> 1..n] : \A i, j \in 1..n : f[i] = f[j] => i = j}

C24_Permuted(lines, f) == [i \in 1..Len(lines) |-> lines[f[i]]]

C24_Sums(lines) ==
    ProcessLines(lines, 1,
        [results |-> <<>>, total_weight_norm |-> 0, total_weight_calc |-> 0])

C24_ResultSet(lines) ==
    {process_ifc_data(lines, None).results[i] :
        i \in 1..Len(C24_Sums(lines).results)}

\* C24: the totals of process_ifc_data (the sums of weight_norm_kN and of
\* weight_calc_kN) and the set of per-element results are the same for
\* every permutation of the input records.
C24_OrderInvariant ==
    AfterProcessIfcData =>
        \A f \in C24_Permutations(Len(args.lines)) :
            LET permuted == C24_Permuted(args.lines, f)
            IN  /\ C24_Sums(permuted).total_weight_norm
                     = C24_Sums(args.lines).total_weight_norm
                /\ C24_Sums(permuted).total_weight_calc
                     = C24_Sums(args.lines).total_weight_calc
                /\ C24_ResultSet(permuted)
                     = {Result.results[i] : i \in DOMAIN Result.results}

AfterCalcForRow == pc = "_calc_for_row"

C25_Indices == 1..Len(args.diameters)

C25_Tuples == C25_Indices \X C25_Indices \X C25_Indices \X C25_Indices

C25_Checked(p, k) ==
    LET raw == VarsResultAfterEx(args.com, args.diameters[p[1]],
                   args.diameters[p[2]], args.diameters[p[3]],
                   args.diameters[p[4]], args.check_ex, k)
    IN  IF raw = None THEN FailedResult ELSE raw[1]

C25_TupleMax(p) ==
    CHOOSE m \in {C25_Checked(p, k) : k \in 1..Len(args.check_ex)} :
        \A k \in 1..Len(args.check_ex) : C25_Checked(p, k) <= m

C25_Passing == {p \in C25_Tuples : C25_TupleMax(p) <= ResultLimit}

C25_Precedes(p, q) ==
    \E i \in 1..4 : p[i] < q[i] /\ \A j \in 1..(i - 1) : p[j] = q[j]

AfterCalc == pc = "calc"

C26_Fetches(calls) ==
    {i \in DOMAIN calls : calls[i] \in {"GetArrZ", "GetArrNM", "GetArrQ"}}

C26_Failed ==
    \/ IsNone(args.self.nfApi)
    \/ args.env.calc_raises
    \/ args.env.result \in {None, Some(FALSE)}

\* C26: NormFEMCalculator.calc returns False whenever the NormFEM API is
\* unavailable, Calc() raised, or nfApi.Result is falsy or unreadable; for
\* a falsy Result it agrees with the VB translation Calc(), which returns
\* the Result without fetching any result array.
C26_FalseWhenFailed ==
    AfterCalc =>
        /\ C26_Failed => Result.returned = FALSE
        /\ (/\ ~IsNone(args.self.nfApi)
            /\ ~args.env.calc_raises
            /\ args.env.result = Some(FALSE)) =>
               /\ Result.returned = Calc(args.self.nfApi, args.env).returned
               /\ C26_Fetches(Result.calls) = {}
               /\ C26_Fetches(Calc(args.self.nfApi, args.env).calls) = {}

C27_CalcAgain == pc = "calc" /\ pc' = "calc"

\* C27: whenever calc has returned, self.nfApi is None; a later calc() on
\* the same instance reports the API as unavailable and returns False
\* without invoking SetArr, Calc or GetArr* again.
C27_ApiReleased ==
    /\ [](AfterCalc => IsNone(Result.self.nfApi))
    /\ [][C27_CalcAgain =>
            /\ args'.self = ret.value.self
            /\ ret'.value.returned = FALSE
            /\ ret'.value.calls = <<>>
            /\ ret'.value.self.report_lines[Len(ret'.value.self.report_lines)]
                   = "API unavailable"]_vars

C27_Witness ==
    /\ AfterCalc
    /\ args.nth = 2
    /\ ~IsNone(args.self.ArrZ)
    /\ IsNone(args.self.nfApi)
    /\ args.env.result = Some(TRUE)
    /\ args.env.getarr.ArrZ = "array"
    /\ Result.returned = FALSE

AfterCalculateSingle == pc = "calculate_single"

AfterProcessIfcFile == pc = "process_ifc_file"

NormCADRuns ==
    IF AfterCalculateSingle
    THEN {[result |-> Result.result, calls |-> Result.calls,
           report_given |-> ~IsNone(args.report_path)]}
    ELSE IF AfterProcessIfcFile
    THEN {[result |-> Result.results[i], calls |-> Result.calls[i],
           report_given |-> ~IsNone(args.report_dir)] :
              i \in DOMAIN Result.results}
    ELSE {}

C28_Order ==
    <<"__init__", "setup_task", "set_input_data", "check_license",
      "calculate", "save_report">>

C28_Entered(run, method) == \E i \in DOMAIN run.calls : run.calls[i] = method

\* C28: in process_ifc_file and calculate_single the NormCAD calls of one
\* run are made in the order setup_task, set_input_data, check_license,
\* calculate, save_report; calculate is entered only after check_license
\* returned true, and save_report only after calculate returned and with a
\* report path given.
C28_GatedOrder ==
    \A run \in NormCADRuns :
        /\ \E n \in 0..Len(C28_Order) : run.calls = SubSeq(C28_Order, 1, n)
        /\ C28_Entered(run, "calculate") =>
              /\ C28_Entered(run, "check_license")
              /\ args.com.license
              /\ args.com.fail_at # "check_license"
        /\ C28_Entered(run, "save_report") =>
              /\ C28_Entered(run, "calculate")
              /\ args.com.fail_at # "calculate"
              /\ "max_result" \in DOMAIN run.result
              /\ run.report_given

C28_Witness ==
    /\ AfterProcessIfcFile
    /\ Len(Result.results) = 2
    /\ \A run \in NormCADRuns :
         /\ C28_Entered(run, "save_report")
         /\ run.result.status = "calculated"
    /\ Result.results[1].report # Result.results[2].report

\* C29: every result dict of process_ifc_file or calculate_single has one
\* of the four statuses, has the key max_result exactly when its status is
\* "calculated" and the key error exactly when it is not, on every path
\* including a failure while saving the report.
C29_StatusKeys ==
    \A run \in NormCADRuns :
        /\ run.result.status
               \in {"calculated", "no_license", "error", "no_win32com"}
        /\ "max_result" \in DOMAIN run.result
               <=> run.result.status = "calculated"
        /\ "error" \in DOMAIN run.result
               <=> run.result.status # "calculated"

AfterCheckNormfem == pc = "check_normfem"

C30_Rows(steps) == {i \in DOMAIN Result.rows : Result.rows[i].name[1] \in steps}

C30_Calls(methods) == {i \in DOMAIN Result.calls : Result.calls[i] \in methods}

C30_GetArr == {"GetArrZ", "GetArrNM", "GetArrQ"}

C30_NotAttempted(steps) == C30_Rows(steps) = {} /\ C30_Calls(steps) = {}

C30_Failed(step) == \E i \in C30_Rows({step}) : Result.rows[i].ok = FALSE

\* C30: check_normfem is a gated sequence: when creating the COM object
\* fails the list has exactly that one failed row and no SetPath, SetArr,
\* Calc or GetArr* step is attempted; when SetPath fails no SetArr, Calc or
\* GetArr* step is attempted; GetArr* steps are attempted only after a
\* successful Calc() step, and Calc() only when try_calc is true.
C30_GatedSteps ==
    AfterCheckNormfem =>
        /\ args.env.create_raises =>
              /\ Result.rows = <<[name |-> <<"COM object ncfem.main">>,
                                  ok |-> FALSE]>>
              /\ C30_NotAttempted({"SetPath", "SetArr", "Calc"} \cup C30_GetArr)
        /\ C30_Failed("SetPath") =>
              C30_NotAttempted({"SetArr", "Calc"} \cup C30_GetArr)
        /\ ~C30_NotAttempted(C30_GetArr) =>
              /\ \E i \in C30_Rows({"Calc"}) : Result.rows[i].ok = TRUE
              /\ ~args.env.calc_raises
        /\ ~C30_NotAttempted({"Calc"}) => args.opts.try_calc

C30_Witness ==
    /\ AfterCheckNormfem
    /\ args.opts.try_calc
    /\ C30_Failed("SetArr")
    /\ C30_Failed("GetArrNM")
    /\ C30_Rows({"GetArrQ"}) # {}

====
